---- MODULE Spec2Model ----
(***************************************************************************)
(* Message-processing pipeline of the moderated chat server:               *)
(*   backend/src/socketHandler.js  (rate limiters, history, session flow)  *)
(*   moderationService.js          (classification, response parsing)      *)
(*   backend/src/aiService.js      (AI responder)                          *)
(* Numbers in [0,1] (scores, threshold) are kept in thousandths, the       *)
(* safety parameter of the classifier in millionths.                       *)
(***************************************************************************)
EXTENDS Integers, Sequences, FiniteSets, TLC

(***************************************************************************)
(* Bounds of the model.                                                    *)
(***************************************************************************)
\* message events received over all connections
MaxReqs == 2
\* register_username events received over all connections
MaxRegs == 1
\* clock advances, each of Tick milliseconds
MaxTicks == 2
\* termination triggers that arrive
MaxShutdowns == 2
Tick == 30000
\* config.ai.conversationHistorySize (AI_CONVERSATION_HISTORY_SIZE, default 5)
conversationHistorySize == 2

(***************************************************************************)
(* Program constants.                                                      *)
(***************************************************************************)
\* the trailing window of both rate limiters, in ms
WindowMs == 60000
\* the fixed cap of checkAIRateLimit
AIResponsesPerMinute == 10
\* longest accepted username and message text
MaxUsernameLength == 20
MaxMessageLength == 1000
Conns == {"s1", "s2"}

AI_AUTHOR_NAME == "AI Moderator"

(***************************************************************************)
(* The state of the server process.                                        *)
(***************************************************************************)
VARIABLES
  process,                 \* the process around the chat: upstream client, listener,
                           \* shutdowns under way, timers, exit code
  moderation,              \* config.moderation: [threshold, saferValue]
  messagesPerMinute,       \* config.rateLimit.messagesPerMinute
  now,                     \* Date.now()
  sockets,                 \* socket id -> "idle" | "open" | "closed"
  socketUsername,          \* socket id -> the closure's socketUsername
  rateLimitMap,            \* socket id -> timestamps of accepted messages
  aiResponseRateLimitMap,  \* socket id -> timestamps of accepted AI turns
  conversationHistoryMap,  \* socket id -> recent [author, text, timestamp]
  handlers,                \* request number -> the frame of a handler still running
  received,                \* events handled so far, per event name
  events,                  \* every emit so far, in order
  audit                    \* the calls made directly, outside a chat session

vars == <<process, moderation, messagesPerMinute, now, sockets, socketUsername, rateLimitMap,
          aiResponseRateLimitMap, conversationHistoryMap, handlers, received, events,
          audit>>

\* config.moderation.threshold (MODERATION_THRESHOLD), in thousandths
threshold == moderation.threshold

(***************************************************************************)
(* JavaScript values: a tag, a string payload and a number payload.        *)
(***************************************************************************)
JStr(s) == [ty |-> "string", s |-> s, n |-> 0]
JNum(n) == [ty |-> "number", s |-> "", n |-> n]
JBool(b) == [ty |-> "boolean", s |-> "", n |-> IF b THEN 1 ELSE 0]
JNull == [ty |-> "null", s |-> "", n |-> 0]
JUndefined == [ty |-> "undefined", s |-> "", n |-> 0]
JObject == [ty |-> "object", s |-> "", n |-> 0]

\* ToBoolean: what `!v` and `v || w` test
Truthy(v) ==
  CASE v.ty = "string" -> v.s # ""
    [] v.ty = "number" -> v.n # 0
    [] v.ty = "boolean" -> v.n = 1
    [] v.ty = "object" -> TRUE
    [] OTHER -> FALSE

\* a || b
Or(a, b) == IF Truthy(a) THEN a ELSE b

IsSpace(ch) == ch \in {" ", "\t", "\n"}

RECURSIVE TrimStart(_)
TrimStart(s) ==
  IF s = "" THEN ""
  ELSE IF IsSpace(SubSeq(s, 1, 1)) THEN TrimStart(SubSeq(s, 2, Len(s)))
  ELSE s

RECURSIVE TrimEnd(_)
TrimEnd(s) ==
  IF s = "" THEN ""
  ELSE IF IsSpace(SubSeq(s, Len(s), Len(s))) THEN TrimEnd(SubSeq(s, 1, Len(s) - 1))
  ELSE s

\* String.prototype.trim
Trim(s) == TrimEnd(TrimStart(s))

(***************************************************************************)
(* moderationService.js: the classifier's answer and its interpretation.   *)
(*                                                                         *)
(* A parsed JSON value is [t, first, scores]:                              *)
(*   t = "null" | "prim" | "pairs" | "array" | "object"                    *)
(*   "pairs"  : an array of [label, score] pairs, scores = label -> score  *)
(*   "array"  : another array; first = "none" | "null" | "prim" | "object" *)
(*              is its element 0 and scores the fields of that object      *)
(*   "object" : scores = its fields                                        *)
(* scores maps keys to JavaScript values.                                  *)
(***************************************************************************)
NoFields == [k \in {} |-> JUndefined]

JsonNull == [t |-> "null", first |-> "none", scores |-> NoFields]
JsonPrim == [t |-> "prim", first |-> "none", scores |-> NoFields]
JsonPairs(f) == [t |-> "pairs", first |-> "none", scores |-> f]
JsonArray(first, f) == [t |-> "array", first |-> first, scores |-> f]
JsonObject(f) == [t |-> "object", first |-> "none", scores |-> f]

\* scores[key]
Get(scores, key) == IF key \in DOMAIN scores THEN scores[key] ELSE JUndefined

toxicCategories ==
  << "violence_graphic", "violence", "sexual_minors", "sexual",
     "self_harm_intent", "self_harm_instructions", "self_harm",
     "hate_threatening", "hate", "harassment_threatening", "harassment",
     "illicit_violent", "illicit",
     "violence/graphic", "sexual/minors", "self-harm/intent",
     "self-harm/instructions", "self-harm", "hate/threatening",
     "harassment/threatening", "illicit/violent",
     "violence graphic", "sexual minors", "self harm", "hate threatening",
     "harassment threatening" >>

\* label.toLowerCase() on the labels the model supplies
ToLowerCase(label) ==
  CASE label = "Hate" -> "hate"
    [] label = "HATE" -> "hate"
    [] label = "Violence" -> "violence"
    [] label = "Self-Harm" -> "self-harm"
    [] label = "Safe Content" -> "safe content"
    [] OTHER -> label

\* the outcome of a classification; threw = TRUE stands for a raised exception
Outcome(isBlocked, reason, maxScore, maxCategory) ==
  [threw |-> FALSE, isBlocked |-> isBlocked, reason |-> reason,
   maxScore |-> maxScore, maxCategory |-> maxCategory]
Threw == [threw |-> TRUE, isBlocked |-> FALSE, reason |-> "",
          maxScore |-> 0, maxCategory |-> ""]

\* the score looked up for one category (lines 319-326)
CategoryScore(scores, category) ==
  Or(Get(scores, category),
     Or(Get(scores, ToLowerCase(category)),
        Or(Get(scores, category \o "_score"),
           Or(Get(scores, ToLowerCase(category) \o "_score"),
              Or(Get(scores, category \o "Score"),
                 Or(Get(scores, ToLowerCase(category) \o "Score"), JNum(0)))))))

\* the loop over toxicCategories: [maxScore, maxCategory] after the first i
RECURSIVE MaxOver(_, _)
MaxOver(scores, i) ==
  IF i = 0 THEN [maxScore |-> 0, maxCategory |-> ""]
  ELSE LET prev == MaxOver(scores, i - 1)
           score == CategoryScore(scores, toxicCategories[i])
       IN IF score.ty = "number" /\ score.n > prev.maxScore
          THEN [maxScore |-> score.n, maxCategory |-> toxicCategories[i]]
          ELSE prev

\* ToNumber for a comparison with a number; NaN compares false either way
IsNumeric(v) == v.ty \in {"number", "boolean", "null"}

\* the scores object the parser works on, or "throws" / "unexpected"
ScoresOf(apiResponse) ==
  CASE apiResponse.t = "pairs" ->
         [kind |-> "scores",
          scores |-> [k \in {ToLowerCase(l) : l \in
                               {x \in DOMAIN apiResponse.scores :
                                  apiResponse.scores[x].ty = "number"}} |->
                        apiResponse.scores[CHOOSE l \in DOMAIN apiResponse.scores :
                           /\ apiResponse.scores[l].ty = "number"
                           /\ ToLowerCase(l) = k]]]
    [] apiResponse.t = "array" ->
         CASE apiResponse.first \in {"none", "null"} ->
                [kind |-> "scores", scores |-> NoFields]
           [] apiResponse.first = "object" ->
                [kind |-> "scores", scores |-> apiResponse.scores]
           [] OTHER -> [kind |-> "throws", scores |-> NoFields]
    [] apiResponse.t = "object" -> [kind |-> "scores", scores |-> apiResponse.scores]
    [] apiResponse.t = "null" -> [kind |-> "throws", scores |-> NoFields]
    [] OTHER -> [kind |-> "unexpected", scores |-> NoFields]

\* a variant: a score at or above the threshold blocks whatever the flags say
isBlocked_scoresFirst(hasFlags, isFlagged, isSaferFlagged, maxScore, okScore) ==
  \/ maxScore >= threshold
  \/ hasFlags /\ (isFlagged \/ isSaferFlagged)

\* lines 359-381: the decision
isBlocked(hasFlags, isFlagged, isSaferFlagged, maxScore, okScore) ==
  IF hasFlags THEN isFlagged \/ isSaferFlagged
  ELSE \/ maxScore >= threshold
       \/ /\ IsNumeric(okScore)
          /\ okScore.n > 0
          /\ okScore.n < 1000 - threshold

parseModerationResponse(apiResponse) ==
  LET got == ScoresOf(apiResponse)
      scores == got.scores
      m == MaxOver(scores, Len(toxicCategories))
      isFlagged == Get(scores, "is_flagged") = JBool(TRUE)
      isSaferFlagged == Get(scores, "is_safer_flagged") = JBool(TRUE)
      hasFlags == "is_flagged" \in DOMAIN scores \/ "is_safer_flagged" \in DOMAIN scores
      okScore == Or(Get(scores, "safe"),
                 Or(Get(scores, "Safe"),
                 Or(Get(scores, "OK"),
                 Or(Get(scores, "ok"),
                 Or(Get(scores, "non_toxic"),
                 Or(Get(scores, "safe content"),
                 Or(Get(scores, "Safe Content"), JNum(0))))))))
      blocked == isBlocked(hasFlags, isFlagged, isSaferFlagged, m.maxScore, okScore)
      cat == IF m.maxCategory = "" THEN "toxicity" ELSE m.maxCategory
      reason ==
        IF blocked
        THEN IF hasFlags
             THEN IF isFlagged /\ isSaferFlagged
                  THEN "Blocked: Flagged by model and safer threshold"
                  ELSE IF isFlagged THEN "Blocked: Flagged by model"
                  ELSE "Blocked: Exceeds safer threshold (" \o cat \o ")"
             ELSE "Blocked due to " \o cat
        ELSE "OK"
  IN CASE got.kind = "unexpected" -> Outcome(FALSE, "UNEXPECTED_RESPONSE", 0, "")
       [] got.kind = "throws" -> Threw
       [] OTHER -> Outcome(blocked, reason, m.maxScore, m.maxCategory)

(***************************************************************************)
(* What the Gradio client hands back: [wrap, len, json, value]             *)
(*   wrap  = "data"  : an object whose data property is an array           *)
(*           "array" : the array itself                                    *)
(*           "other" : neither                                             *)
(*   len   = length of that array                                          *)
(*   json  = element 1 of it: "falsy" | "badstring" | "string" | "value"   *)
(*           (a string that does not parse, one that parses to value, or   *)
(*           a value that is no string)                                    *)
(***************************************************************************)
ClientResponse(wrap, len, json, value) ==
  [wrap |-> wrap, len |-> len, json |-> json, value |-> value]

parseGradioClientResponse(clientResponse) ==
  IF clientResponse.wrap = "other"
  THEN Outcome(FALSE, "UNEXPECTED_RESPONSE", 0, "")
  ELSE IF clientResponse.len < 2
  THEN Outcome(FALSE, "UNEXPECTED_RESPONSE", 0, "")
  ELSE IF clientResponse.json = "falsy"
  THEN Outcome(FALSE, "UNEXPECTED_RESPONSE", 0, "")
  ELSE IF clientResponse.json = "badstring"
  THEN Outcome(FALSE, "PARSE_ERROR", 0, "")
  ELSE LET r == parseModerationResponse(clientResponse.value)
       IN IF r.threw THEN Outcome(FALSE, "PARSE_ERROR", 0, "") ELSE r

(***************************************************************************)
(* An upstream exchange: [net, resp]; net = "ok" | "error" (the connection *)
(* setup, the request or its timeout failed), resp the response received.  *)
(* isSpaceAPI selects the Gradio client path over the plain HTTP path, on  *)
(* which resp.value is response.data.                                      *)
(***************************************************************************)
\* config.huggingFace.apiUrl names the Space by default
isSpaceAPI == TRUE

Min(a, b) == IF a < b THEN a ELSE b
Max(a, b) == IF a > b THEN a ELSE b

\* lines 88-103: the `safer` parameter sent with the text, in millionths
saferValue ==
  IF moderation.saferValue \notin {JNull, JUndefined}
  THEN Max(5000, Min(100000, moderation.saferValue.n))
  ELSE Max(5000, Min(100000, 100000 - Or(JNum(threshold), JNum(500)).n * 95))

\* a variant: a failed call blocks the message
ApiError_closed == Outcome(TRUE, "API_ERROR", 0, "")

\* lines 138-153: the outcome when the call throws
ApiError == Outcome(FALSE, "API_ERROR", 0, "")

moderateText(text, upstream) ==
  IF text = "" \/ Trim(text) = ""
  THEN Outcome(FALSE, "Empty message", 0, "")
  ELSE IF upstream.net = "error" THEN ApiError
  ELSE IF isSpaceAPI
  THEN LET r == parseGradioClientResponse(upstream.resp)
       IN IF r.threw THEN ApiError ELSE r
  ELSE LET r == parseModerationResponse(upstream.resp.value)
       IN IF r.threw THEN ApiError ELSE r

(***************************************************************************)
(* aiService.js: the AI responder.  A provider exchange is [net, content]: *)
(* net = "ok" | "error" (any failure of the HTTP call), content the text   *)
(* of choices[0].message.content ("" when the response carries none).      *)
(***************************************************************************)
\* config.ai.enabled (AI_ENABLED, default on)
aiEnabled == TRUE
\* config.ai.maxResponseLength (AI_MAX_RESPONSE_LENGTH, default '200')
maxResponseLength == 200

\* parseOpenAIResponse succeeded
ProviderAnswered(provider) == provider.net = "ok" /\ provider.content # ""

\* generateAIResponse: [threw, text]
\* a variant: a failed provider call yields a stock reply
generateAIResponse_fallback(provider) ==
  [threw |-> FALSE,
   text |-> IF ProviderAnswered(provider) THEN Trim(provider.content) ELSE "one moment"]

generateAIResponse(provider) ==
  IF ~aiEnabled \/ ~ProviderAnswered(provider)
  THEN [threw |-> TRUE, text |-> ""]
  ELSE IF Len(provider.content) > maxResponseLength
  THEN [threw |-> FALSE,
        text |-> Trim(SubSeq(provider.content, 1, maxResponseLength)) \o "..."]
  ELSE [threw |-> FALSE, text |-> Trim(provider.content)]

\* generateGreeting: the greeting text, JNull when the AI is disabled; the
\* catch of lines 31-35 answers a failed call with a stock greeting (its
\* emoji is left out here)
generateGreeting(username, provider) ==
  IF ~aiEnabled THEN JNull
  ELSE IF ~ProviderAnswered(provider)
  THEN JStr("Hey " \o username \o "! Welcome to the chat! What's up?")
  ELSE JStr(Trim(provider.content))

(***************************************************************************)
(* socketHandler.js: rate limiters and conversation history.  A map is a   *)
(* function whose domain is the set of socket ids that have an entry.      *)
(***************************************************************************)
EmptyMap == [k \in {} |-> <<>>]

MapSet(map, key, value) ==
  [k \in DOMAIN map \cup {key} |-> IF k = key THEN value ELSE map[k]]

MapDelete(map, key) == [k \in DOMAIN map \ {key} |-> map[k]]

\* messages.filter(timestamp => timestamp > oneMinuteAgo)
RECURSIVE Recent(_, _)
Recent(timestamps, oneMinuteAgo) ==
  IF timestamps = <<>> THEN <<>>
  ELSE IF Head(timestamps) > oneMinuteAgo
  THEN <<Head(timestamps)>> \o Recent(Tail(timestamps), oneMinuteAgo)
  ELSE Recent(Tail(timestamps), oneMinuteAgo)

\* a variant: one message more than the limit gets through
checkRateLimit_offByOne(map, socketId, t) ==
  LET created == IF socketId \in DOMAIN map THEN map ELSE MapSet(map, socketId, <<>>)
      recentMessages == Recent(created[socketId], t - WindowMs)
  IN IF Len(recentMessages) > messagesPerMinute
     THEN [allowed |-> FALSE, map |-> created]
     ELSE [allowed |-> TRUE,
           map |-> MapSet(created, socketId, Append(recentMessages, t))]

\* a variant: the timestamp is recorded before the limit is looked at
checkRateLimit_recordsFirst(map, socketId, t) ==
  LET created == IF socketId \in DOMAIN map THEN map ELSE MapSet(map, socketId, <<>>)
      recentMessages == Recent(created[socketId], t - WindowMs)
  IN [allowed |-> Len(recentMessages) < messagesPerMinute,
      map |-> MapSet(created, socketId, Append(recentMessages, t))]

\* a variant: an accepted message takes two places of the window
checkRateLimit_countsTwice(map, socketId, t) ==
  LET created == IF socketId \in DOMAIN map THEN map ELSE MapSet(map, socketId, <<>>)
      recentMessages == Recent(created[socketId], t - WindowMs)
  IN IF Len(recentMessages) >= messagesPerMinute
     THEN [allowed |-> FALSE, map |-> created]
     ELSE [allowed |-> TRUE,
           map |-> MapSet(created, socketId, recentMessages \o <<t, t>>)]

\* [allowed, map]: the answer and the map afterwards; t is Date.now()
checkRateLimit(map, socketId, t) ==
  LET created == IF socketId \in DOMAIN map THEN map ELSE MapSet(map, socketId, <<>>)
      recentMessages == Recent(created[socketId], t - WindowMs)
  IN IF Len(recentMessages) >= messagesPerMinute
     THEN [allowed |-> FALSE, map |-> created]
     ELSE [allowed |-> TRUE,
           map |-> MapSet(created, socketId, Append(recentMessages, t))]

\* a variant: an eleventh AI turn gets through
checkAIRateLimit_offByOne(map, socketId, t) ==
  LET created == IF socketId \in DOMAIN map THEN map ELSE MapSet(map, socketId, <<>>)
      recentResponses == Recent(created[socketId], t - WindowMs)
  IN IF Len(recentResponses) > AIResponsesPerMinute
     THEN [allowed |-> FALSE, map |-> created]
     ELSE [allowed |-> TRUE,
           map |-> MapSet(created, socketId, Append(recentResponses, t))]

\* a variant: the AI gate counts the user window of the connection
checkAIRateLimit_readsUserWindow(map, socketId, t) ==
  LET created == IF socketId \in DOMAIN map THEN map ELSE MapSet(map, socketId, <<>>)
      recentResponses ==
        Recent(IF socketId \in DOMAIN rateLimitMap THEN rateLimitMap[socketId] ELSE <<>>,
               t - WindowMs)
  IN IF Len(recentResponses) >= AIResponsesPerMinute
     THEN [allowed |-> FALSE, map |-> created]
     ELSE [allowed |-> TRUE,
           map |-> MapSet(created, socketId, Append(created[socketId], t))]

checkAIRateLimit(map, socketId, t) ==
  LET created == IF socketId \in DOMAIN map THEN map ELSE MapSet(map, socketId, <<>>)
      recentResponses == Recent(created[socketId], t - WindowMs)
  IN IF Len(recentResponses) >= AIResponsesPerMinute
     THEN [allowed |-> FALSE, map |-> created]
     ELSE [allowed |-> TRUE,
           map |-> MapSet(created, socketId, Append(recentResponses, t))]

\* a variant: beyond the size the newest entry is dropped
addToConversationHistory_dropsNewest(map, socketId, messageData) ==
  LET created == IF socketId \in DOMAIN map THEN map ELSE MapSet(map, socketId, <<>>)
      pushed == Append(created[socketId],
                       [author |-> Or(messageData.author, JStr("Anonymous")),
                        text |-> messageData.text,
                        timestamp |-> messageData.timestamp])
  IN MapSet(created, socketId,
            IF Len(pushed) > conversationHistorySize
            THEN SubSeq(pushed, 1, conversationHistorySize) ELSE pushed)

addToConversationHistory(map, socketId, messageData) ==
  LET created == IF socketId \in DOMAIN map THEN map ELSE MapSet(map, socketId, <<>>)
      pushed == Append(created[socketId],
                       [author |-> Or(messageData.author, JStr("Anonymous")),
                        text |-> messageData.text,
                        timestamp |-> messageData.timestamp])
  IN MapSet(created, socketId,
            IF Len(pushed) > conversationHistorySize THEN Tail(pushed) ELSE pushed)

(***************************************************************************)
(* socketHandler.js: sanitization of a message text.                       *)
(***************************************************************************)
\* index of the first occurrence of pat in s at or after position i, 0 if none
IndexOf(s, pat, i) ==
  LET found == {k \in i..(Len(s) - Len(pat) + 1) : SubSeq(s, k, k + Len(pat) - 1) = pat}
  IN IF found = {} THEN 0 ELSE CHOOSE k \in found : \A j \in found : k <= j

\* toLowerCase on the letters of the tag name the first pattern looks for
LowerChar(ch) ==
  CASE ch = "S" -> "s" [] ch = "C" -> "c" [] ch = "R" -> "r"
    [] ch = "I" -> "i" [] ch = "P" -> "p" [] ch = "T" -> "t"
    [] OTHER -> ch

RECURSIVE Lower(_)
Lower(s) ==
  IF s = "" THEN ""
  ELSE IF Len(s) = 1 THEN LowerChar(s)
  ELSE Lower(SubSeq(s, 1, Len(s) \div 2)) \o Lower(SubSeq(s, Len(s) \div 2 + 1, Len(s)))

IsWordChar(ch) ==
  ch \in {"a", "b", "c", "d", "e", "h", "i", "l", "o", "p", "r", "s", "t", "x",
          "S", "C", "R", "I", "P", "T", "0", "1", "_"}

\* .replace(/<script\b[^<]*(?:(?!<\/script>)<[^<]*)*<\/script>/gi, '')
RECURSIVE StripScripts(_)
StripScripts(s) ==
  LET open == IndexOf(Lower(s), "<script", 1)
      boundary == open + 7 > Len(s) \/ ~IsWordChar(SubSeq(s, open + 7, open + 7))
      close == IndexOf(Lower(s), "</script>", open + 7)
  IN IF open = 0 THEN s
     ELSE IF boundary /\ close # 0
     THEN SubSeq(s, 1, open - 1) \o StripScripts(SubSeq(s, close + 9, Len(s)))
     ELSE SubSeq(s, 1, open + 6) \o StripScripts(SubSeq(s, open + 7, Len(s)))

\* .replace(/<[^>]+>/g, '')
RECURSIVE StripTags(_)
StripTags(s) ==
  LET open == IndexOf(s, "<", 1)
      close == IndexOf(s, ">", open + 1)
  IN IF open = 0 \/ close = 0 THEN s
     ELSE IF close >= open + 2
     THEN SubSeq(s, 1, open - 1) \o StripTags(SubSeq(s, close + 1, Len(s)))
     ELSE SubSeq(s, 1, open) \o StripTags(SubSeq(s, open + 1, Len(s)))

\* messageText after lines 412-417
Sanitize(text) == StripTags(StripScripts(Trim(text)))

NoOutcome == Outcome(FALSE, "", 0, "")
NoUpstream == [net |-> "none", resp |-> ClientResponse("other", 0, "falsy", JsonNull)]

(***************************************************************************)
(* Inputs of the model.                                                    *)
(***************************************************************************)
\* values of RATE_LIMIT_PER_MINUTE the server is started with
RateLimits == {1, 2}

\* payloads of the `message` event: data.text and the advisory data.author
MessageInputs ==
  { [text |-> JStr(" <b>hello</b> "), author |-> JStr("Mallory")],
    [text |-> JUndefined, author |-> JUndefined] }

\* payloads of the `register_username` event: data.username
RegisterInputs == { JStr(" Ann "), JStr("  ") }

Flags(isFlagged, isSaferFlagged) ==
  [k \in {"is_flagged", "is_safer_flagged", "hate"} |->
     CASE k = "is_flagged" -> JBool(isFlagged)
       [] k = "is_safer_flagged" -> JBool(isSaferFlagged)
       [] OTHER -> JNum(IF isFlagged \/ isSaferFlagged THEN 900 ELSE 10)]

Answer(value) == [net |-> "ok", resp |-> ClientResponse("data", 2, "string", value)]

\* exchanges with the classifier
UpstreamClean == Answer(JsonObject(Flags(FALSE, FALSE)))
UpstreamFlagged == Answer(JsonObject(Flags(TRUE, FALSE)))
UpstreamNetworkError == [net |-> "error", resp |-> ClientResponse("other", 0, "falsy", JsonNull)]
UpstreamUnparseable == [net |-> "ok", resp |-> ClientResponse("data", 2, "badstring", JsonNull)]
UpstreamUnexpected == [net |-> "ok", resp |-> ClientResponse("other", 0, "falsy", JsonNull)]

\* the classifier answers
Verdicts2 == {UpstreamClean, UpstreamFlagged}

UpstreamFailures == {UpstreamNetworkError, UpstreamUnparseable, UpstreamUnexpected}
Upstreams == {UpstreamClean, UpstreamFlagged} \cup UpstreamFailures

\* exchanges with the AI provider
Providers ==
  { [net |-> "ok", content |-> "hey there"],
    [net |-> "ok", content |-> "  "],
    [net |-> "error", content |-> ""] }

(***************************************************************************)
(* Emitting.  An event records its name, whom it was addressed to ("all"   *)
(* for io.emit) and, of its payload, id, text, author, isAI and reason;    *)
(* req is the number of the request it was emitted for.  On an AI message  *)
(* reason keeps its moderationStatus.                                      *)
(***************************************************************************)
NoId == [prefix |-> "none", socket |-> "", t |-> 0]

\* `${prefix}${socket.id}-${Date.now()}`
MessageId(prefix, c) == [prefix |-> prefix, socket |-> c, t |-> now]

Event(ev, to, req, id, text, author, isAI, reason) ==
  [ev |-> ev, to |-> to, req |-> req, id |-> id, text |-> text, author |-> author,
   isAI |-> isAI, reason |-> reason]

\* moderationStatus of an AI message, as far as kept: did its classification pass
ModerationStatus(result) == IF result.isBlocked THEN "blocked" ELSE "passed"

\* a variant: the error goes to every connection
ErrorEvent_toAll(c, req, message) ==
  Event("error", "all", req, NoId, message, JUndefined, FALSE, "")

ErrorEvent(c, req, message) ==
  Event("error", c, req, NoId, message, JUndefined, FALSE, "")

Frame(kind, c, pc, text, author) ==
  [kind |-> kind, conn |-> c, pc |-> pc, text |-> text, author |-> author,
   upstream |-> NoUpstream, mod |-> NoOutcome, aiText |-> ""]

NextReq == received.register + received.message + 1

\* the handler returns: its frame is gone
Return(i) == [k \in DOMAIN handlers \ {i} |-> handlers[k]]

\* the process once httpServer.listen has run (server.js line 343): no
\* Gradio client yet (moderationService.js lines 6-7), no shutdown under way.
\* The chat specifications leave the record as it is; getGradioClient and
\* gracefulShutdown are followed in specifications of their own.
Started ==
  [gradioClient |-> "null", clientConnectionPromise |-> "null", connects |-> <<>>,
   listening |-> TRUE, shutdowns |-> <<>>, timers |-> {}, exit |-> "none"]

\* config.moderation when neither MODERATION_THRESHOLD nor SAFER_VALUE is set
DefaultModeration == [threshold |-> 500, saferValue |-> JNull]

\* no limiter is called directly
NoAudit == [limiter |-> "none", key |-> "", accepted |-> <<>>, last |-> "none"]

\* the state after setupSocketHandlers(io), under any configured rate limit
InitServer ==
  /\ process = Started
  /\ moderation = DefaultModeration
  /\ messagesPerMinute \in RateLimits
  /\ now = 0
  /\ sockets = [c \in Conns |-> "idle"]
  /\ socketUsername = [c \in Conns |-> JNull]
  /\ rateLimitMap = EmptyMap
  /\ aiResponseRateLimitMap = EmptyMap
  /\ conversationHistoryMap = EmptyMap
  /\ handlers = EmptyMap
  /\ received = [register |-> 0, message |-> 0]
  /\ events = <<>>
  /\ audit = NoAudit

\* io.on('connection')
Connect(c) ==
  /\ sockets[c] = "idle"
  /\ sockets' = [sockets EXCEPT ![c] = "open"]
  /\ socketUsername' = [socketUsername EXCEPT ![c] = JNull]
  /\ UNCHANGED <<process, moderation, messagesPerMinute, audit, now, rateLimitMap, aiResponseRateLimitMap, conversationHistoryMap,
                 handlers, received, events>>

\* time passes
Advance ==
  /\ now' = now + Tick
  /\ audit' = [audit EXCEPT !.last = "none"]
  /\ UNCHANGED <<process, moderation, messagesPerMinute, sockets, socketUsername, rateLimitMap,
                 aiResponseRateLimitMap, conversationHistoryMap, handlers, received,
                 events>>

(***************************************************************************)
(* socket.on('register_username'), lines 352-395                           *)
(***************************************************************************)
RegisterUsername(c, username) ==
  /\ sockets[c] = "open"
  /\ received' = [received EXCEPT !.register = @ + 1]
  /\ LET name == Trim(username.s)
     IN IF ~Truthy(username) \/ username.ty # "string"
        THEN /\ events' = Append(events, ErrorEvent(c, NextReq, "Username is required"))
             /\ UNCHANGED <<socketUsername, handlers>>
        ELSE IF Len(name) = 0 \/ Len(name) > MaxUsernameLength
        THEN /\ events' = Append(events, ErrorEvent(c, NextReq,
                             "Username must be between 1 and 20 characters"))
             /\ UNCHANGED <<socketUsername, handlers>>
        ELSE /\ socketUsername' = [socketUsername EXCEPT ![c] = JStr(name)]
             /\ handlers' = IF aiEnabled
                            THEN MapSet(handlers, NextReq,
                                        Frame("register", c, "greeting", name, JUndefined))
                            ELSE handlers
             /\ UNCHANGED events
  /\ UNCHANGED <<process, moderation, messagesPerMinute, audit, now, sockets, rateLimitMap, aiResponseRateLimitMap,
                 conversationHistoryMap>>

\* await generateGreeting(username) returns
Greeted(i, provider) ==
  /\ i \in DOMAIN handlers
  /\ handlers[i].kind = "register" /\ handlers[i].pc = "greeting"
  /\ LET greeting == generateGreeting(handlers[i].text, provider)
     IN handlers' = IF Truthy(greeting)
                    THEN [handlers EXCEPT ![i] = [@ EXCEPT !.pc = "greetModerating",
                                                          !.text = "",
                                                          !.aiText = greeting.s]]
                    ELSE Return(i)
  /\ UNCHANGED <<process, moderation, messagesPerMinute, now, sockets, socketUsername,
                 rateLimitMap, aiResponseRateLimitMap, conversationHistoryMap, received,
                 events>>

GreetingReturn(i, provider) == Greeted(i, provider) /\ UNCHANGED audit

\* a variant: the greeting is signed with the name of the user
GreetingMessage_asUser(i) ==
  [author |-> socketUsername[handlers[i].conn], text |-> handlers[i].aiText,
   timestamp |-> now]

\* lines 375-381: greetingMessage
GreetingMessage(i) ==
  [author |-> JStr(AI_AUTHOR_NAME), text |-> handlers[i].aiText, timestamp |-> now]

\* await moderateText(greeting) has returned greetingModeration
GreetingModerated(i, greetingModeration) ==
  /\ i \in DOMAIN handlers
  /\ handlers[i].kind = "register" /\ handlers[i].pc = "greetModerating"
  /\ LET c == handlers[i].conn
         greetingMessage == GreetingMessage(i)
     IN /\ handlers' = Return(i)
        /\ IF ~greetingModeration.isBlocked
           THEN /\ conversationHistoryMap' =
                     addToConversationHistory(conversationHistoryMap, c, greetingMessage)
                /\ events' = Append(events,
                     Event("message", c, i, MessageId("ai-greeting-", c),
                           greetingMessage.text, greetingMessage.author, TRUE,
                           ModerationStatus(greetingModeration)))
           ELSE UNCHANGED <<conversationHistoryMap, events>>
  /\ UNCHANGED <<process, moderation, messagesPerMinute, now, sockets, socketUsername,
                 rateLimitMap, aiResponseRateLimitMap, received>>

GreetingModerationReturn(i, upstream) ==
  /\ i \in DOMAIN handlers
  /\ GreetingModerated(i, moderateText(handlers[i].aiText, upstream))
  /\ UNCHANGED audit

(***************************************************************************)
(* socket.on('message'), lines 398-498                                     *)
(***************************************************************************)
\* a variant: the guard lets every connection through
UsernameMissing_never(c) == FALSE

\* line 400: no username is set on the connection
UsernameMissing(c) == ~Truthy(socketUsername[c])

\* the display names of the session
Registered == [c \in Conns |-> IF c = "s1" THEN JStr("Ann") ELSE JNull]

\* a variant: no limit on the length of the text
MessageGate_anyLength(c, data) ==
  LET messageText == Sanitize(data.text.s)
  IN IF UsernameMissing(c) THEN "noUsername"
     ELSE IF data.text.ty # "string" THEN "invalidFormat"
     ELSE IF Len(messageText) = 0 THEN "empty"
     ELSE IF ~checkRateLimit(rateLimitMap, c, now).allowed THEN "rateLimited"
     ELSE "accepted"

\* how the synchronous part of the handler ends
MessageGate(c, data) ==
  LET messageText == Sanitize(data.text.s)
  IN IF UsernameMissing(c) THEN "noUsername"
     ELSE IF data.text.ty # "string" THEN "invalidFormat"
     ELSE IF Len(messageText) = 0 THEN "empty"
     ELSE IF Len(messageText) > MaxMessageLength THEN "tooLong"
     ELSE IF ~checkRateLimit(rateLimitMap, c, now).allowed THEN "rateLimited"
     ELSE "accepted"

RateLimitNotice(c, req, messageText) ==
  Event("messageBlocked", c, req, NoId, messageText, JUndefined, FALSE,
        "Rate limit exceeded. Please slow down.")

OnMessage(c, data) ==
  /\ sockets[c] = "open"
  /\ received' = [received EXCEPT !.message = @ + 1]
  /\ LET gate == MessageGate(c, data)
         messageText == IF data.text.ty = "string" THEN Sanitize(data.text.s) ELSE ""
     IN /\ rateLimitMap' = IF gate \in {"rateLimited", "accepted"}
                           THEN checkRateLimit(rateLimitMap, c, now).map
                           ELSE rateLimitMap
        /\ events' =
             CASE gate = "noUsername" ->
                    Append(events, ErrorEvent(c, NextReq, "Please set your username first"))
               [] gate = "invalidFormat" ->
                    Append(events, ErrorEvent(c, NextReq, "Invalid message format"))
               [] gate = "empty" ->
                    Append(events, ErrorEvent(c, NextReq, "Message cannot be empty"))
               [] gate = "tooLong" ->
                    Append(events, ErrorEvent(c, NextReq,
                           "Message too long (max 1000 characters)"))
               [] gate = "rateLimited" ->
                    Append(events, RateLimitNotice(c, NextReq, messageText))
               [] OTHER -> events
        /\ handlers' = IF gate = "accepted"
                       THEN MapSet(handlers, NextReq,
                                   Frame("message", c, "moderating", messageText,
                                         data.author))
                       ELSE handlers
  /\ UNCHANGED <<process, moderation, messagesPerMinute, audit, now, sockets, socketUsername, aiResponseRateLimitMap,
                 conversationHistoryMap>>

\* a variant: the blocked text goes out to everybody as a chat message
BlockedNotice_broadcast(i, moderationResult) ==
  Event("message", "all", i, MessageId("", handlers[i].conn), handlers[i].text,
        socketUsername[handlers[i].conn], FALSE, "")

\* lines 445-453: the notice of a blocked message
BlockedNotice(i, moderationResult) ==
  Event("messageBlocked", handlers[i].conn, i, MessageId("", handlers[i].conn),
        handlers[i].text, JUndefined, FALSE, moderationResult.reason)

\* lines 466-473: messageData of an allowed message
MessageData(i) ==
  [author |-> Or(socketUsername[handlers[i].conn],
                 Or(handlers[i].author, JStr("Anonymous"))),
   text |-> handlers[i].text, timestamp |-> now]

\* line 479: the broadcast of an allowed message
Broadcast(i) ==
  Event("message", "all", i, MessageId("", handlers[i].conn), handlers[i].text,
        MessageData(i).author, FALSE, "")

\* a variant: the fate of the message is not emitted
Notified_never(i, moderationResult) == events

\* a variant: the fate of the message is emitted only when no other handler
\* is waiting
Notified_whenIdle(i, moderationResult) ==
  IF \E k \in DOMAIN handlers : k # i
  THEN events
  ELSE Append(events, IF moderationResult.isBlocked
                      THEN BlockedNotice(i, moderationResult)
                      ELSE Broadcast(i))

\* lines 445 and 479: the log once the fate of the message has been emitted
Notified(i, moderationResult) ==
  Append(events, IF moderationResult.isBlocked
                 THEN BlockedNotice(i, moderationResult)
                 ELSE Broadcast(i))

\* await moderateText(messageText) has returned moderationResult, lines 441-490
MessageModerated(i, upstream, moderationResult) ==
  /\ i \in DOMAIN handlers
  /\ handlers[i].kind = "message" /\ handlers[i].pc = "moderating"
  /\ handlers' = [handlers EXCEPT ![i] = [@ EXCEPT !.pc = "scheduled",
                                                   !.author = JUndefined,
                                                   !.upstream = upstream,
                                                   !.mod = moderationResult]]
  /\ events' = Notified(i, moderationResult)
  /\ conversationHistoryMap' =
       IF moderationResult.isBlocked
       THEN conversationHistoryMap
       ELSE addToConversationHistory(conversationHistoryMap, handlers[i].conn,
                                     MessageData(i))
  /\ UNCHANGED <<process, moderation, messagesPerMinute, audit, now, sockets, socketUsername, rateLimitMap, aiResponseRateLimitMap,
                 received>>

ModerationReturn(i, upstream) ==
  /\ i \in DOMAIN handlers
  /\ MessageModerated(i, upstream, moderateText(handlers[i].text, upstream))

(***************************************************************************)
(* generateAndBroadcastAIResponse, lines 268-338                           *)
(***************************************************************************)
\* the setImmediate callback runs: lines 270-285 up to the provider call
AITurn(i) ==
  /\ i \in DOMAIN handlers
  /\ handlers[i].kind = "message" /\ handlers[i].pc = "scheduled"
  /\ IF ~aiEnabled
     THEN handlers' = Return(i) /\ UNCHANGED aiResponseRateLimitMap
     ELSE LET gate == checkAIRateLimit(aiResponseRateLimitMap, handlers[i].conn, now)
          IN /\ aiResponseRateLimitMap' = gate.map
             /\ handlers' = IF gate.allowed
                            THEN [handlers EXCEPT ![i] =
                                    [@ EXCEPT !.pc = "generating", !.text = "",
                                              !.upstream = NoUpstream,
                                              !.mod = NoOutcome]]
                            ELSE Return(i)
  /\ UNCHANGED <<process, moderation, messagesPerMinute, audit, now, sockets, socketUsername, rateLimitMap, conversationHistoryMap,
                 received, events>>

\* a variant: every response is taken as something to send
NothingToSend_never(aiResponseText) == FALSE

\* lines 287-290: an empty or whitespace-only response
NothingToSend(aiResponseText) ==
  aiResponseText = "" \/ Len(Trim(aiResponseText)) = 0

\* await generateAIResponse(...) returns or throws, lines 285-290 and 319-337
AIGenerated(i, provider) ==
  /\ i \in DOMAIN handlers
  /\ handlers[i].kind = "message" /\ handlers[i].pc = "generating"
  /\ LET r == generateAIResponse(provider)
     IN handlers' = IF r.threw \/ NothingToSend(r.text)
                    THEN Return(i)
                    ELSE [handlers EXCEPT ![i] = [@ EXCEPT !.pc = "aiModerating",
                                                          !.aiText = r.text]]
  /\ UNCHANGED <<process, moderation, messagesPerMinute, now, sockets, socketUsername,
                 rateLimitMap, aiResponseRateLimitMap, conversationHistoryMap, received,
                 events>>

AIGenerateReturn(i, provider) == AIGenerated(i, provider) /\ UNCHANGED audit

\* await moderateText(aiResponseText) has returned aiModerationResult, lines 293-316
AIModerated(i, aiModerationResult) ==
  /\ i \in DOMAIN handlers
  /\ handlers[i].kind = "message" /\ handlers[i].pc = "aiModerating"
  /\ LET c == handlers[i].conn
         aiMessageData == [author |-> JStr(AI_AUTHOR_NAME), text |-> handlers[i].aiText,
                           timestamp |-> now]
     IN /\ handlers' = Return(i)
        /\ IF aiModerationResult.isBlocked
           THEN UNCHANGED <<conversationHistoryMap, events>>
           ELSE /\ conversationHistoryMap' =
                     addToConversationHistory(conversationHistoryMap, c, aiMessageData)
                /\ events' = Append(events,
                     Event("message", "all", i, MessageId("ai-", c), handlers[i].aiText,
                           JStr(AI_AUTHOR_NAME), TRUE,
                           ModerationStatus(aiModerationResult)))
  /\ UNCHANGED <<process, moderation, messagesPerMinute, audit, now, sockets, socketUsername, rateLimitMap, aiResponseRateLimitMap,
                 received>>

AIModerationReturn(i, upstream) ==
  /\ i \in DOMAIN handlers
  /\ AIModerated(i, moderateText(handlers[i].aiText, upstream))

(***************************************************************************)
(* socket.on('disconnect'), lines 501-505                                  *)
(***************************************************************************)
\* a variant: the state of every connection is dropped
cleanupRateLimit_all(socketId) ==
  /\ rateLimitMap' = EmptyMap
  /\ conversationHistoryMap' = EmptyMap
  /\ aiResponseRateLimitMap' = EmptyMap

cleanupRateLimit(socketId) ==
  /\ rateLimitMap' = MapDelete(rateLimitMap, socketId)
  /\ conversationHistoryMap' = MapDelete(conversationHistoryMap, socketId)
  /\ aiResponseRateLimitMap' = MapDelete(aiResponseRateLimitMap, socketId)

Disconnect(c) ==
  /\ sockets[c] = "open"
  /\ sockets' = [sockets EXCEPT ![c] = "closed"]
  /\ cleanupRateLimit(c)
  /\ socketUsername' = [socketUsername EXCEPT ![c] = JNull]
  /\ UNCHANGED <<process, moderation, messagesPerMinute, audit, now, handlers, received, events>>

Requests == 1..(MaxReqs + MaxRegs)

(***************************************************************************)
(* The chat session.  Both clients have connected; s1 has registered as    *)
(* Ann with one register_username event whose greeting was withheld by     *)
(* moderation (lines 368-372), s2 has not registered.                      *)
(***************************************************************************)
Init ==
  /\ process = Started
  /\ moderation = DefaultModeration
  /\ messagesPerMinute \in RateLimits
  /\ now = 0
  /\ sockets = [c \in Conns |-> "open"]
  /\ socketUsername = Registered
  /\ rateLimitMap = EmptyMap
  /\ aiResponseRateLimitMap = EmptyMap
  /\ conversationHistoryMap = EmptyMap
  /\ handlers = EmptyMap
  /\ received = [register |-> 1, message |-> 0]
  /\ events = <<>>
  /\ audit = NoAudit

Next ==
  \/ \E c \in Conns : \E data \in MessageInputs :
       received.message < MaxReqs /\ OnMessage(c, data)
  \/ \E i \in Requests : \E upstream \in Upstreams : ModerationReturn(i, upstream)
  \/ \E i \in Requests : AITurn(i)
  \/ \E i \in Requests : \E provider \in Providers : AIGenerateReturn(i, provider)
  \/ \E i \in Requests : \E upstream \in Upstreams : AIModerationReturn(i, upstream)
  \/ \E c \in Conns : Disconnect(c)

Spec == Init /\ [][Next]_vars

(***************************************************************************)
(* The chat session of s1 with the provider watched: audit keeps the       *)
(* requests whose provider call failed, each with the number the next      *)
(* request had at that moment.                                             *)
(***************************************************************************)
InitAI ==
  /\ process = Started
  /\ moderation = DefaultModeration
  /\ messagesPerMinute \in RateLimits
  /\ now = 0
  /\ sockets = [c \in Conns |-> "open"]
  /\ socketUsername = Registered
  /\ rateLimitMap = EmptyMap
  /\ aiResponseRateLimitMap = EmptyMap
  /\ conversationHistoryMap = EmptyMap
  /\ handlers = EmptyMap
  /\ received = [register |-> 1, message |-> 0]
  /\ events = <<>>
  /\ audit = [failed |-> {}]

AIGenerateWatched(i, provider) ==
  /\ AIGenerated(i, provider)
  /\ audit' = IF ProviderAnswered(provider) THEN audit
              ELSE [audit EXCEPT !.failed = @ \cup {[req |-> i, next |-> NextReq]}]

NextAI ==
  \/ \E data \in MessageInputs : received.message < MaxReqs /\ OnMessage("s1", data)
  \/ \E i \in Requests : \E upstream \in Upstreams : ModerationReturn(i, upstream)
  \/ \E i \in Requests : AITurn(i)
  \/ \E i \in Requests : \E provider \in Providers : AIGenerateWatched(i, provider)
  \/ \E i \in Requests : \E upstream \in Upstreams : AIModerationReturn(i, upstream)

SpecAI == InitAI /\ [][NextAI]_vars

(***************************************************************************)
(* server.js: gracefulShutdown, lines 356-401, and the process.on handlers *)
(* that call it, lines 404-416.  process.shutdowns holds one record per    *)
(* call: where the call stands (the trigger is only logged, line 357).     *)
(***************************************************************************)
Signals == {"SIGTERM", "SIGINT", "uncaughtException", "unhandledRejection"}

Exited == process.exit # "none"

\* a variant: the timer of lines 360-363 is not set
forceExitTimeout_unset(n) == {}

\* lines 360-363: the timer of the n-th call, 10000 ms
forceExitTimeout(n) == {[kind |-> "forceExit", of |-> n]}

\* lines 389-393: the timer set after httpServer.close, 5000 ms
ForcingExit(n) == {[kind |-> "forcingExit", of |-> n]}

\* socketHandler.js lines 173-178
cleanupAllRateLimits ==
  /\ rateLimitMap' = EmptyMap
  /\ conversationHistoryMap' = EmptyMap
  /\ aiResponseRateLimitMap' = EmptyMap

\* closeGradioClient returns without awaiting anything (part_002 line 41)
NothingToClose == process.gradioClient = "null"

\* the call runs up to its first await that waits: the timer is set, the
\* maps are cleared, every socket is disconnected (its disconnect handler,
\* lines 501-505, finds the maps empty), io.close() stops the listener
\* from accepting, closeGradioClient is called; with no client cached the
\* call goes on to httpServer.close and the second timer
gracefulShutdown(signal) ==
  /\ ~Exited
  /\ LET n == Len(process.shutdowns) + 1
     IN process' =
          [process EXCEPT
             !.listening = FALSE,
             !.shutdowns = Append(@, [pc |-> IF NothingToClose THEN "closingServer"
                                             ELSE "closingClient"]),
             !.timers = @ \cup forceExitTimeout(n)
                          \cup (IF NothingToClose THEN ForcingExit(n) ELSE {})]
  /\ cleanupAllRateLimits
  /\ sockets' = [c \in Conns |-> IF sockets[c] = "open" THEN "closed" ELSE sockets[c]]
  /\ socketUsername' = [c \in Conns |-> IF sockets[c] = "open" THEN JNull
                                        ELSE socketUsername[c]]
  /\ UNCHANGED <<moderation, messagesPerMinute, now, handlers, received, events>>

\* await closeGradioClient() returns in the n-th call: close() resolved or
\* threw (part_002 lines 52-58); then httpServer.close and the second timer
ClientClosed(n) ==
  /\ ~Exited
  /\ n \in 1..Len(process.shutdowns)
  /\ process.shutdowns[n].pc = "closingClient"
  /\ process' = [process EXCEPT !.gradioClient = "null",
                                !.clientConnectionPromise = "null",
                                !.shutdowns[n].pc = "closingServer",
                                !.timers = @ \cup ForcingExit(n)]
  /\ UNCHANGED <<moderation, messagesPerMinute, now, sockets, socketUsername,
                 rateLimitMap, aiResponseRateLimitMap, conversationHistoryMap, handlers,
                 received, events>>

\* process.exit(code) with clearTimeout(forceExitTimeout) of the n-th call
Exit(n, code) ==
  /\ process' = [process EXCEPT !.exit = code, !.timers = @ \ forceExitTimeout(n)]
  /\ UNCHANGED <<moderation, messagesPerMinute, now, sockets, socketUsername,
                 rateLimitMap, aiResponseRateLimitMap, conversationHistoryMap, handlers,
                 received, events>>

\* the callback of httpServer.close runs, lines 384-388
ServerClosed(n) ==
  /\ ~Exited
  /\ n \in 1..Len(process.shutdowns)
  /\ process.shutdowns[n].pc = "closingServer"
  /\ Exit(n, "0")

\* the timer of lines 389-393 fires
ForcingExitFires(n) ==
  /\ ~Exited
  /\ ForcingExit(n) \subseteq process.timers
  /\ Exit(n, "0")

\* the timer of lines 360-363 fires
ForceExitFires(n) ==
  /\ ~Exited
  /\ [kind |-> "forceExit", of |-> n] \in process.timers
  /\ Exit(n, "1")

(***************************************************************************)
(* A chat session that is shut down.  A client may be cached; audit keeps, *)
(* per call of gracefulShutdown, the steps it has performed, in order.     *)
(* The timers fire; nothing obliges closeGradioClient or httpServer.close  *)
(* to complete.                                                            *)
(***************************************************************************)
InitShutdown ==
  /\ process \in {[Started EXCEPT !.gradioClient = g] : g \in {"null", "client"}}
  /\ moderation = DefaultModeration
  /\ messagesPerMinute \in RateLimits
  /\ now = 0
  /\ sockets = [c \in Conns |-> "open"]
  /\ socketUsername = Registered
  /\ rateLimitMap = EmptyMap
  /\ aiResponseRateLimitMap = EmptyMap
  /\ conversationHistoryMap = EmptyMap
  /\ handlers = EmptyMap
  /\ received = [register |-> 1, message |-> 0]
  /\ events = <<>>
  /\ audit = <<>>

Trigger(signal) ==
  /\ gracefulShutdown(signal)
  /\ audit' = Append(audit,
                     <<"purge", "disconnect", "stopAccepting">> \o
                     (IF NothingToClose THEN <<"closeClient", "closeListening">>
                      ELSE <<>>))

ClientClosedWatched(n) ==
  /\ ClientClosed(n)
  /\ audit' = [audit EXCEPT ![n] = @ \o <<"closeClient", "closeListening">>]

NextShutdown ==
  \/ \E data \in MessageInputs :
       received.message < MaxReqs /\ ~Exited /\ OnMessage("s1", data)
  \/ \E i \in Requests : \E upstream \in Verdicts2 :
       ~Exited /\ ModerationReturn(i, upstream)
  \/ \E i \in Requests : ~Exited /\ AITurn(i)
  \/ \E signal \in Signals : Len(process.shutdowns) < MaxShutdowns /\ Trigger(signal)
  \/ \E n \in 1..MaxShutdowns : ClientClosedWatched(n)
  \/ \E n \in 1..MaxShutdowns : ServerClosed(n) /\ UNCHANGED audit
  \/ \E n \in 1..MaxShutdowns : ForcingExitFires(n) /\ UNCHANGED audit
  \/ \E n \in 1..MaxShutdowns : ForceExitFires(n) /\ UNCHANGED audit

SpecShutdown ==
  /\ InitShutdown
  /\ [][NextShutdown]_vars
  /\ \A n \in 1..MaxShutdowns : WF_vars(ForcingExitFires(n) /\ UNCHANGED audit)
  /\ \A n \in 1..MaxShutdowns : WF_vars(ForceExitFires(n) /\ UNCHANGED audit)

(***************************************************************************)
(* The chat session of s1 with upstreams that may stay silent.  A step of  *)
(* ModerationReturn or AIGenerateReturn is an answer of the upstream, and  *)
(* nothing obliges an upstream to answer.  What the server itself does is  *)
(* fair: the setImmediate callback runs (lines 458, 483), and the timer    *)
(* of the provider call (aiService.js 183, timeout: 30000) fires.  The     *)
(* classifier is reached through the Gradio client (isSpaceAPI), whose     *)
(* connect and predict calls (part_002 21, 110) are given no timer.        *)
(***************************************************************************)
\* axios gives up on the provider: callOpenAIAPI throws (lines 204-208)
ProviderTimedOut == [net |-> "error", content |-> ""]

AIProviderTimeout(i) == AIGenerateReturn(i, ProviderTimedOut)

NextLive ==
  \/ \E data \in MessageInputs : received.message < MaxReqs /\ OnMessage("s1", data)
  \/ \E i \in Requests : \E upstream \in Upstreams : ModerationReturn(i, upstream)
  \/ \E i \in Requests : AITurn(i)
  \/ \E i \in Requests : \E provider \in Providers : AIGenerateReturn(i, provider)
  \/ \E i \in Requests : AIProviderTimeout(i)
  \/ \E i \in Requests : \E upstream \in Upstreams : AIModerationReturn(i, upstream)

SpecLive ==
  /\ Init
  /\ [][NextLive]_vars
  /\ \A i \in Requests : WF_vars(AITurn(i))
  /\ \A i \in Requests : WF_vars(AIProviderTimeout(i))

(***************************************************************************)
(* Registration followed by chat, with the greeting watched: audit keeps   *)
(* the registrations whose provider call failed, those whose greeting the  *)
(* classification withheld and those whose greeting it let through.  s1    *)
(* registers, one registration at a time, and chats once its greetings     *)
(* are settled; an AI turn is followed up to the point where its prompt    *)
(* is built (line 282).                                                    *)
(***************************************************************************)
Greeting == {i \in DOMAIN handlers : handlers[i].kind = "register"}

InitGreet ==
  /\ process = Started
  /\ moderation = DefaultModeration
  /\ messagesPerMinute \in RateLimits
  /\ now = 0
  /\ sockets = [c \in Conns |-> "open"]
  /\ socketUsername = [c \in Conns |-> JNull]
  /\ rateLimitMap = EmptyMap
  /\ aiResponseRateLimitMap = EmptyMap
  /\ conversationHistoryMap = EmptyMap
  /\ handlers = EmptyMap
  /\ received = [register |-> 0, message |-> 0]
  /\ events = <<>>
  /\ audit = [failed |-> {}, flagged |-> {}, passed |-> {}]

GreetingWatched(i, provider) ==
  /\ Greeted(i, provider)
  /\ audit' = IF ProviderAnswered(provider) THEN audit
              ELSE [audit EXCEPT !.failed = @ \cup {i}]

GreetingModerationWatched(i, upstream) ==
  /\ i \in DOMAIN handlers
  /\ LET greetingModeration == moderateText(handlers[i].aiText, upstream)
     IN /\ GreetingModerated(i, greetingModeration)
        /\ audit' = IF greetingModeration.isBlocked
                    THEN [audit EXCEPT !.flagged = @ \cup {i}]
                    ELSE [audit EXCEPT !.passed = @ \cup {i}]

NextGreet ==
  \/ \E username \in RegisterInputs :
       /\ received.register < MaxRegs /\ received.message = 0 /\ Greeting = {}
       /\ RegisterUsername("s1", username)
  \/ \E i \in Requests : \E provider \in Providers : GreetingWatched(i, provider)
  \/ \E i \in Requests : \E upstream \in Verdicts2 : GreetingModerationWatched(i, upstream)
  \/ \E data \in {d \in MessageInputs : d.text.ty = "string"} :
       /\ received.message < MaxReqs /\ Greeting = {}
       /\ OnMessage("s1", data)
  \/ \E i \in Requests : \E upstream \in Verdicts2 : ModerationReturn(i, upstream)
  \/ \E i \in Requests : AITurn(i)

SpecGreet == InitGreet /\ [][NextGreet]_vars

(***************************************************************************)
(* The history called directly: audit keeps, per connection, every entry   *)
(* appended so far, as stored.                                             *)
(***************************************************************************)
\* messages to store: one signed, one without an author
HistoryInputs ==
  { [author |-> JStr("Ann"), text |-> "a", timestamp |-> 0],
    [author |-> JUndefined, text |-> "b", timestamp |-> 0] }

Stored(messageData) ==
  [author |-> Or(messageData.author, JStr("Anonymous")), text |-> messageData.text,
   timestamp |-> messageData.timestamp]

InitHistory ==
  /\ process = Started
  /\ moderation = DefaultModeration
  /\ messagesPerMinute \in RateLimits
  /\ now = 0
  /\ sockets = [c \in Conns |-> "open"]
  /\ socketUsername = [c \in Conns |-> JNull]
  /\ rateLimitMap = EmptyMap
  /\ aiResponseRateLimitMap = EmptyMap
  /\ conversationHistoryMap = EmptyMap
  /\ handlers = EmptyMap
  /\ received = [register |-> 0, message |-> 0]
  /\ events = <<>>
  /\ audit = [c \in Conns |-> <<>>]

AppendEntry(c, messageData) ==
  /\ conversationHistoryMap' = addToConversationHistory(conversationHistoryMap, c, messageData)
  /\ audit' = [audit EXCEPT ![c] = Append(@, Stored(messageData))]
  /\ UNCHANGED <<process, moderation, messagesPerMinute, now, sockets, socketUsername, rateLimitMap,
                 aiResponseRateLimitMap, handlers, received, events>>

NextHistory ==
  \E c \in Conns : \E messageData \in HistoryInputs :
    Len(audit[c]) < conversationHistorySize + 2 /\ AppendEntry(c, messageData)

SpecHistory == InitHistory /\ [][NextHistory]_vars

(***************************************************************************)
(* Arrival: clients connect and register from the state after start-up.    *)
(* The chat session above starts in a state this reaches (SessionStart).   *)
(***************************************************************************)
NextRegister ==
  \/ \E c \in Conns : Connect(c)
  \/ \E c \in Conns : \E username \in RegisterInputs :
       received.register < MaxRegs /\ RegisterUsername(c, username)
  \/ \E i \in Requests : \E provider \in Providers : GreetingReturn(i, provider)
  \/ \E i \in Requests : \E upstream \in Upstreams : GreetingModerationReturn(i, upstream)

SpecRegister == InitServer /\ [][NextRegister]_vars

SessionStart ==
  /\ sockets = [c \in Conns |-> "open"]
  /\ socketUsername = Registered
  /\ rateLimitMap = EmptyMap
  /\ aiResponseRateLimitMap = EmptyMap
  /\ conversationHistoryMap = EmptyMap
  /\ handlers = EmptyMap
  /\ received = [register |-> 1, message |-> 0]
  /\ events = <<>>

(***************************************************************************)
(* One limiter called directly for one key, under the clock.  audit names  *)
(* the limiter and the key and keeps the times of the calls that were      *)
(* accepted and the answer to the last call made at the present time.      *)
(***************************************************************************)
InitRL ==
  /\ process = Started
  /\ moderation = DefaultModeration
  /\ messagesPerMinute \in RateLimits
  /\ now = 0
  /\ sockets = [c \in Conns |-> "open"]
  /\ socketUsername = [c \in Conns |-> JNull]
  /\ rateLimitMap = EmptyMap
  /\ aiResponseRateLimitMap = EmptyMap
  /\ conversationHistoryMap = EmptyMap
  /\ handlers = EmptyMap
  /\ received = [register |-> 0, message |-> 0]
  /\ events = <<>>
  /\ audit \in {[limiter |-> l, key |-> k, accepted |-> <<>>, last |-> "none"] :
                  l \in {"user", "ai"}, k \in Conns}

Audited(r) ==
  [audit EXCEPT !.accepted = IF r.allowed THEN Append(@, now) ELSE @,
                !.last = IF r.allowed THEN "accepted" ELSE "rejected"]

UserCheck ==
  /\ audit.limiter = "user"
  /\ LET r == checkRateLimit(rateLimitMap, audit.key, now)
     IN rateLimitMap' = r.map /\ audit' = Audited(r)
  /\ UNCHANGED <<process, moderation, messagesPerMinute, now, sockets, socketUsername, aiResponseRateLimitMap,
                 conversationHistoryMap, handlers, received, events>>

AICheck ==
  /\ audit.limiter = "ai"
  /\ LET r == checkAIRateLimit(aiResponseRateLimitMap, audit.key, now)
     IN aiResponseRateLimitMap' = r.map /\ audit' = Audited(r)
  /\ UNCHANGED <<process, moderation, messagesPerMinute, now, sockets, socketUsername, rateLimitMap,
                 conversationHistoryMap, handlers, received, events>>

NextRL ==
  \/ UserCheck
  \/ AICheck
  \/ now < MaxTicks * Tick /\ Advance

SpecRL == InitRL /\ [][NextRL]_vars

\* the limiters called directly after the other limiter has let one call of
\* every connection through at time 0
Untouched == [c \in Conns |-> <<0>>]

InitWindows ==
  /\ process = Started
  /\ moderation = DefaultModeration
  /\ messagesPerMinute \in RateLimits
  /\ now = 0
  /\ sockets = [c \in Conns |-> "open"]
  /\ socketUsername = [c \in Conns |-> JNull]
  /\ audit \in {[limiter |-> l, key |-> k, accepted |-> <<>>, last |-> "none"] :
                  l \in {"user", "ai"}, k \in Conns}
  /\ rateLimitMap = IF audit.limiter = "ai" THEN Untouched ELSE EmptyMap
  /\ aiResponseRateLimitMap = IF audit.limiter = "user" THEN Untouched ELSE EmptyMap
  /\ conversationHistoryMap = EmptyMap
  /\ handlers = EmptyMap
  /\ received = [register |-> 0, message |-> 0]
  /\ events = <<>>

SpecWindows == InitWindows /\ [][NextRL]_vars

(***************************************************************************)
(* The classifier's answer parsed directly, under any configuration of     *)
(* MODERATION_THRESHOLD and SAFER_VALUE.  audit holds the answer, the      *)
(* safety parameter sent and the outcome returned.                         *)
(***************************************************************************)
\* MODERATION_THRESHOLD, in thousandths
Thresholds == {0, 250, 500, 1000}
\* SAFER_VALUE: unset, or a number in millionths
SaferValues == {JNull, JNum(1000), JNum(50000), JNum(200000)}
\* a category score, the safe score and a verdict flag: absent, or a value
CategoryScores == {JUndefined, JNum(0), JNum(250), JNum(500), JNum(900)}
SafeScores == {JUndefined, JNum(0), JNum(300), JNum(700)}
VerdictFlags == {JUndefined, JBool(TRUE), JBool(FALSE)}

\* the object with the supplied ones of the four fields
Verdict(hate, safe, flagged, saferFlagged) ==
  LET all == [k \in {"hate", "safe", "is_flagged", "is_safer_flagged"} |->
                CASE k = "hate" -> hate
                  [] k = "safe" -> safe
                  [] k = "is_flagged" -> flagged
                  [] OTHER -> saferFlagged]
  IN JsonObject([k \in {x \in DOMAIN all : all[x] # JUndefined} |-> all[k]])

Verdicts ==
  {Verdict(h, s, f, g) : h \in CategoryScores, s \in SafeScores,
                         f \in VerdictFlags, g \in VerdictFlags}

InitModeration ==
  /\ process = Started
  /\ moderation \in [threshold : Thresholds, saferValue : SaferValues]
  /\ messagesPerMinute = 1
  /\ now = 0
  /\ sockets = [c \in Conns |-> "idle"]
  /\ socketUsername = [c \in Conns |-> JNull]
  /\ rateLimitMap = EmptyMap
  /\ aiResponseRateLimitMap = EmptyMap
  /\ conversationHistoryMap = EmptyMap
  /\ handlers = EmptyMap
  /\ received = [register |-> 0, message |-> 0]
  /\ events = <<>>
  /\ audit \in {[answer |-> v, done |-> FALSE, safer |-> 0, outcome |-> NoOutcome] :
                  v \in Verdicts}

\* lines 113-120 on the answer: the parameter sent and the outcome returned
Classify ==
  /\ ~audit.done
  /\ audit' = [audit EXCEPT !.done = TRUE, !.safer = saferValue,
                            !.outcome = parseModerationResponse(audit.answer)]
  /\ UNCHANGED <<process, moderation, messagesPerMinute, now, sockets, socketUsername,
                 rateLimitMap, aiResponseRateLimitMap, conversationHistoryMap, handlers,
                 received, events>>

NextModeration == Classify

SpecModeration == InitModeration /\ [][NextModeration]_vars

\* the fields of the answer
Supplied(key) == key \in DOMAIN audit.answer.scores
Field(key) == audit.answer.scores[key]
FlagTrue(key) == Supplied(key) /\ Field(key) = JBool(TRUE)
CarriesFlag == Supplied("is_flagged") \/ Supplied("is_safer_flagged")
MaxCategoryScore == IF Supplied("hate") THEN Field("hate").n ELSE 0

(***************************************************************************)
(* What a step did.                                                        *)
(***************************************************************************)
\* request i came back from `await moderateText` in this step
Moderated(i) ==
  /\ i \in DOMAIN handlers /\ handlers[i].pc = "moderating"
  /\ i \in DOMAIN handlers' /\ handlers'[i].pc = "scheduled"

\* the events emitted in this step
Emitted == SubSeq(events', Len(events) + 1, Len(events'))

\* the history of connection c received an entry in this step
Grew(c) ==
  /\ c \in DOMAIN conversationHistoryMap'
  /\ conversationHistoryMap'[c] # <<>>
  /\ c \in DOMAIN conversationHistoryMap =>
       conversationHistoryMap'[c] # conversationHistoryMap[c]

LastEntry(c) == conversationHistoryMap'[c][Len(conversationHistoryMap'[c])]

\* a `message` event was handled in this step
MessageArrived == received'.message = received.message + 1

\* the connection the event handled in this step came from
Sender ==
  IF Emitted # <<>> THEN Emitted[1].to ELSE handlers'[NextReq].conn

\* the positions of the log that hold an event of request i
EventsOf(i) == {k \in 1..Len(events) : events[k].req = i}

IsUserBroadcast(e) == e.ev = "message" /\ ~e.isAI
IsAIReaction(e) == e.ev = "message" /\ e.isAI /\ e.id.prefix = "ai-"
IsPrimaryNotice(e) == ~e.isAI /\ e.ev \in {"message", "messageBlocked"}

(***************************************************************************)
(* C1: a user message that moderation blocks produces exactly one event,   *)
(* a messageBlocked notice to its sender, and joins no history; a user     *)
(* message is broadcast, or joins a history, only in the step in which     *)
(* its own moderation came back not blocked, and moderation comes back     *)
(* once per message.                                                       *)
(***************************************************************************)
C1_BlockedStep ==
  \A i \in Requests :
    Moderated(i) /\ handlers'[i].mod.isBlocked =>
      /\ Len(Emitted) = 1
      /\ Emitted[1].ev = "messageBlocked"
      /\ Emitted[1].to = handlers[i].conn
      /\ Emitted[1].text = handlers[i].text
      /\ conversationHistoryMap' = conversationHistoryMap

C1_OnlyAllowedTextSpreads ==
  /\ \A k \in 1..Len(Emitted) :
       IsUserBroadcast(Emitted[k]) =>
         Moderated(Emitted[k].req) /\ ~handlers'[Emitted[k].req].mod.isBlocked
  /\ \A c \in Conns :
       Grew(c) /\ LastEntry(c).author # JStr(AI_AUTHOR_NAME) =>
         \E i \in Requests :
           Moderated(i) /\ handlers[i].conn = c /\ ~handlers'[i].mod.isBlocked

C1_ModeratedOnce ==
  \A i \in DOMAIN handlers : handlers[i].pc = "moderating" => EventsOf(i) = {}

C1_BlockedMessageStaysPrivate ==
  [][C1_BlockedStep /\ C1_OnlyAllowedTextSpreads /\ C1_ModeratedOnce]_vars

\* a message has been blocked and its sender told
C1_Witness ==
  \E i \in DOMAIN handlers :
    /\ handlers[i].pc = "scheduled" /\ handlers[i].mod.isBlocked
    /\ \E k \in EventsOf(i) : events[k].ev = "messageBlocked"

(***************************************************************************)
(* C2: a `message` event from a connection with no username is answered    *)
(* with one error event to that connection and changes nothing else: no    *)
(* rate window, no handler left running (so no moderation call and no AI   *)
(* turn), no history.                                                      *)
(***************************************************************************)
C2_UnregisteredSenderIsRefused ==
  [][MessageArrived /\ ~Truthy(socketUsername[Sender]) =>
       /\ Len(Emitted) = 1
       /\ Emitted[1].ev = "error"
       /\ Emitted[1].text = "Please set your username first"
       /\ UNCHANGED <<rateLimitMap, aiResponseRateLimitMap, conversationHistoryMap,
                      handlers>>]_vars

\* such a message has been refused
C2_Witness ==
  \E k \in 1..Len(events) :
    /\ events[k].ev = "error" /\ events[k].text = "Please set your username first"
    /\ ~Truthy(socketUsername[events[k].to])

(***************************************************************************)
(* C3: whenever the AI reaction to a user message has been emitted, the    *)
(* primary notice of that message (its broadcast or its messageBlocked)    *)
(* stands earlier in the order of emission.                                *)
(***************************************************************************)
C3_NoticeBeforeReaction ==
  \A k \in 1..Len(events) :
    IsAIReaction(events[k]) =>
      \E j \in 1..(k - 1) :
        events[j].req = events[k].req /\ IsPrimaryNotice(events[j])

\* an AI reaction has been emitted
C3_Witness == \E k \in 1..Len(events) : IsAIReaction(events[k])
(***************************************************************************)
(* C4: two user messages of one connection that are both broadcast are     *)
(* broadcast in the order in which the server received them.               *)
(***************************************************************************)
C4_SendsKeepTheirOrder ==
  \A j \in 1..Len(events) : \A k \in 1..Len(events) :
    /\ j < k
    /\ IsUserBroadcast(events[j]) /\ IsUserBroadcast(events[k])
    /\ events[j].id.socket = events[k].id.socket
    => events[j].req < events[k].req

(***************************************************************************)
(* C5: a connection whose disconnect has been handled has no entry in the  *)
(* user rate window map, the AI rate window map or the history map.        *)
(***************************************************************************)
C5_DisconnectPurges ==
  \A c \in Conns :
    sockets[c] = "closed" =>
      /\ c \notin DOMAIN rateLimitMap
      /\ c \notin DOMAIN aiResponseRateLimitMap
      /\ c \notin DOMAIN conversationHistoryMap

(***************************************************************************)
(* C6: when the exchange with the classifier failed (the call threw, the   *)
(* response has not the expected shape, its JSON does not parse),          *)
(* moderateText returns, not blocked, with reason API_ERROR, PARSE_ERROR   *)
(* or UNEXPECTED_RESPONSE, and the message has been broadcast to all.      *)
(***************************************************************************)
C6_ModerationDegradesOpen ==
  \A i \in DOMAIN handlers :
    handlers[i].pc = "scheduled" /\ handlers[i].upstream \in UpstreamFailures =>
      /\ ~handlers[i].mod.threw
      /\ ~handlers[i].mod.isBlocked
      /\ handlers[i].mod.reason \in {"API_ERROR", "PARSE_ERROR", "UNEXPECTED_RESPONSE"}
      /\ \E k \in EventsOf(i) :
           /\ IsUserBroadcast(events[k])
           /\ events[k].to = "all"
           /\ events[k].text = handlers[i].text

\* the call to the classifier has failed for a message
C6_Witness ==
  \E i \in DOMAIN handlers :
    /\ handlers[i].pc = "scheduled"
    /\ handlers[i].upstream = UpstreamNetworkError
    /\ handlers[i].mod.reason = "API_ERROR"

(***************************************************************************)
(* C7: a call of the user limiter for a key is accepted exactly when fewer *)
(* than messagesPerMinute of the calls accepted before it for that key     *)
(* were made less than 60,000 ms earlier.                                  *)
(***************************************************************************)
\* the accepted calls less than a window old, the last call included
AcceptedInWindow ==
  Cardinality({k \in 1..Len(audit.accepted) : now - audit.accepted[k] < WindowMs})

C8_WindowsWithinCap ==
  /\ \A c \in DOMAIN rateLimitMap : Len(rateLimitMap[c]) <= messagesPerMinute
  /\ \A c \in DOMAIN aiResponseRateLimitMap :
       Len(aiResponseRateLimitMap[c]) <= AIResponsesPerMinute

\* an AI window is full and a call has just been turned down
C8_Witness ==
  /\ audit.limiter = "ai" /\ audit.last = "rejected"
  /\ Len(aiResponseRateLimitMap[audit.key]) = AIResponsesPerMinute

(***************************************************************************)
(* C9: a valid message of a registered connection whose user window is     *)
(* full is answered with one messageBlocked notice (rate limit) to that    *)
(* connection and changes nothing else: no handler is left running (no     *)
(* moderation call, no AI turn), no history, no rate window.               *)
(***************************************************************************)
\* the timestamps of c's user window that are less than a window old
WindowCount(c) ==
  IF c \in DOMAIN rateLimitMap
  THEN Cardinality({k \in 1..Len(rateLimitMap[c]) : now - rateLimitMap[c][k] < WindowMs})
  ELSE 0

C9_RateLimitedMessageDoesNothing ==
  [][/\ MessageArrived
     /\ Truthy(socketUsername[Sender])
     /\ Emitted = <<>> \/ Emitted[1].ev # "error"
     /\ WindowCount(Sender) >= messagesPerMinute
     => /\ Len(Emitted) = 1
        /\ Emitted[1].ev = "messageBlocked"
        /\ Emitted[1].reason = "Rate limit exceeded. Please slow down."
        /\ UNCHANGED <<rateLimitMap, aiResponseRateLimitMap, conversationHistoryMap,
                       handlers>>]_vars

\* a message has been turned down by the user limiter
C9_Witness ==
  \E k \in 1..Len(events) :
    /\ events[k].ev = "messageBlocked"
    /\ events[k].reason = "Rate limit exceeded. Please slow down."
    /\ Len(rateLimitMap[events[k].to]) = messagesPerMinute

(***************************************************************************)
(* C10: every broadcast user message carries as author the display name    *)
(* registered on the connection that sent it.                              *)
(***************************************************************************)
C10_AuthorIsRegisteredName ==
  \A k \in 1..Len(events) :
    IsUserBroadcast(events[k]) => events[k].author = Registered[events[k].id.socket]
(***************************************************************************)
(* C11: for an answer that carries is_flagged or is_safer_flagged, the     *)
(* outcome is blocked exactly when one of the two is true, whatever the    *)
(* scores and the threshold.                                               *)
(***************************************************************************)
C11_FlagsDecide ==
  audit.done /\ CarriesFlag =>
    (audit.outcome.isBlocked <=> FlagTrue("is_flagged") \/ FlagTrue("is_safer_flagged"))

\* a score above the threshold with both flags false has not blocked
C11_Witness ==
  /\ audit.done
  /\ Supplied("is_flagged") /\ Supplied("is_safer_flagged")
  /\ ~FlagTrue("is_flagged") /\ ~FlagTrue("is_safer_flagged")
  /\ MaxCategoryScore > threshold
  /\ ~audit.outcome.isBlocked

(***************************************************************************)
(* C12: for an answer that carries no verdict flag, the outcome is blocked *)
(* exactly when the largest category score is at least the threshold, or   *)
(* a safe score is supplied and is below 1 minus the threshold.            *)
(***************************************************************************)
C12_ThresholdRule ==
  audit.done /\ ~CarriesFlag =>
    (audit.outcome.isBlocked <=>
       \/ MaxCategoryScore >= threshold
       \/ Supplied("safe") /\ Field("safe").n < 1000 - threshold)

(***************************************************************************)
(* C13: the safety parameter sent is the override clamped to [0.005, 0.1]  *)
(* when one is configured, and otherwise 0.1 - 0.095 * threshold clamped   *)
(* to [0.005, 0.1].                                                        *)
(***************************************************************************)
C13_SafetyParameter ==
  audit.done =>
    audit.safer =
      Max(5000, Min(100000,
        IF moderation.saferValue # JNull
        THEN moderation.saferValue.n
        ELSE 100000 - 95 * moderation.threshold))
(***************************************************************************)
(* C14: every AI reaction emitted has a text that is not empty after       *)
(* trimming and a classification that passed, and a history receives an    *)
(* AI-authored entry only in the step that emits such a reaction with      *)
(* that text for that connection.                                          *)
(***************************************************************************)
C14_Sendable(e) == Trim(e.text) # "" /\ e.reason = "passed"

C14_OnlyCleanAITextSpreads ==
  [][/\ \A k \in 1..Len(Emitted) :
          IsAIReaction(Emitted[k]) => C14_Sendable(Emitted[k]) /\ Emitted[k].to = "all"
     /\ \A c \in Conns :
          Grew(c) /\ LastEntry(c).author = JStr(AI_AUTHOR_NAME) =>
            \E k \in 1..Len(Emitted) :
              /\ IsAIReaction(Emitted[k]) /\ C14_Sendable(Emitted[k])
              /\ Emitted[k].text = LastEntry(c).text
              /\ Emitted[k].id.socket = c]_vars

\* an AI reaction is in the log and in the history of its connection
C14_Witness ==
  \E k \in 1..Len(events) : \E c \in DOMAIN conversationHistoryMap :
    /\ IsAIReaction(events[k]) /\ events[k].id.socket = c
    /\ \E n \in 1..Len(conversationHistoryMap[c]) :
         /\ conversationHistoryMap[c][n].author = JStr(AI_AUTHOR_NAME)
         /\ conversationHistoryMap[c][n].text = events[k].text
(***************************************************************************)
(* C15: the step in which the provider call of an AI turn fails emits      *)
(* nothing, appends to no history and leaves the connection, its name and  *)
(* its rate windows as they were; the turn is over, and the only event of  *)
(* its request ever in the log is the primary notice.                      *)
(***************************************************************************)
C15_FailedTurnIsSilent ==
  [][\A f \in audit'.failed :
       /\ f.req \notin DOMAIN handlers'
       /\ \A k \in 1..Len(events') :
            events'[k].req = f.req => IsPrimaryNotice(events'[k])
       /\ f \notin audit.failed =>
            UNCHANGED <<events, conversationHistoryMap, sockets, socketUsername,
                        rateLimitMap, aiResponseRateLimitMap>>]_vars

\* a provider call failed and a message received afterwards was broadcast
C15_Witness ==
  \E f \in audit.failed : \E k \in 1..Len(events) :
    IsUserBroadcast(events[k]) /\ events[k].req >= f.next
(***************************************************************************)
(* C16: a registration whose greeting provider call failed gets no         *)
(* `message` event, and the history of its connection gets no entry by     *)
(* the AI author for it.                                                   *)
(***************************************************************************)
C16_FailedGreetingIsSkipped ==
  [][\A i \in audit'.failed :
       /\ \A k \in 1..Len(events') : events'[k].req = i => events'[k].ev # "message"
       /\ \A upstream \in Verdicts2 :
            GreetingModerationWatched(i, upstream) => UNCHANGED conversationHistoryMap]_vars
(***************************************************************************)
(* C17: a registration whose greeting passed classification has exactly    *)
(* one event, a `message` addressed to the registering connection alone,   *)
(* by the AI author with isAI true; the step that sends it appends it to   *)
(* the history of that connection and to no other; a greeting the          *)
(* classification withheld is neither sent nor stored.  A delivered        *)
(* greeting is in the history of its connection as long as fewer than      *)
(* conversationHistorySize entries were appended after it.                 *)
(***************************************************************************)
IsGreeting(e) == e.ev = "message" /\ e.isAI /\ e.id.prefix = "ai-greeting-"

\* the history of connection c holds the text of event e under its author
InHistory(c, e) ==
  /\ c \in DOMAIN conversationHistoryMap
  /\ \E n \in 1..Len(conversationHistoryMap[c]) :
       /\ conversationHistoryMap[c][n].author = e.author
       /\ conversationHistoryMap[c][n].text = e.text

\* entries appended to the history of c after the event at position k:
\* every append comes with a `message` event that carries an id of c
AppendsAfter(c, k) ==
  Cardinality({j \in (k + 1)..Len(events) :
                 events[j].ev = "message" /\ events[j].id.socket = c})

\* the first AI prompt of connection c is built in this step (line 282)
FirstPrompt(c) ==
  c \notin DOMAIN aiResponseRateLimitMap /\ c \in DOMAIN aiResponseRateLimitMap'

History(c) ==
  IF c \in DOMAIN conversationHistoryMap THEN conversationHistoryMap[c] ELSE <<>>

C18_HistoryIsLastN ==
  \A c \in Conns :
    LET k == Len(audit[c])
    IN /\ History(c) = SubSeq(audit[c], k - Min(k, conversationHistorySize) + 1, k)
       /\ Len(History(c)) <= conversationHistorySize

\* more entries were appended than the history holds: the oldest are gone
C18_Witness ==
  \E c \in Conns :
    /\ Len(audit[c]) = conversationHistorySize + 2
    /\ Len(History(c)) = conversationHistorySize
    /\ History(c)[1] = audit[c][3]
    /\ History(c)[1] # audit[c][1]
(***************************************************************************)
(* C19: of the AI turns let through for a connection, at most 10 lie in    *)
(* any window of 60,000 ms, under every configured message cap; calls of   *)
(* the AI gate leave every user window as it was, and calls of the user    *)
(* gate leave every AI window as it was.                                   *)
(***************************************************************************)
C19_AICapAndSeparateWindows ==
  /\ audit.limiter = "ai" =>
       /\ \A k \in 1..Len(audit.accepted) :
            Cardinality({j \in 1..k : audit.accepted[k] - audit.accepted[j] < WindowMs})
              <= AIResponsesPerMinute
       /\ rateLimitMap = Untouched
  /\ audit.limiter = "user" => aiResponseRateLimitMap = Untouched

\* ten AI turns passed under a message cap of 1, the eleventh was turned
\* down, and the user windows still hold their one timestamp
C19_Witness ==
  /\ audit.limiter = "ai" /\ audit.last = "rejected"
  /\ AcceptedInWindow = AIResponsesPerMinute
  /\ messagesPerMinute = 1
  /\ rateLimitMap = Untouched
(***************************************************************************)
(* C20: any two sends that carry an id (user broadcasts, block notices,    *)
(* AI messages) carry different ids.                                       *)
(***************************************************************************)
C20_IdsAreUnique ==
  \A j, k \in 1..Len(events) :
    (j # k /\ events[j].id # NoId /\ events[k].id # NoId) =>
      events[j].id # events[k].id
(***************************************************************************)
(* C21: a message that passed validation and the rate limiter eventually   *)
(* gets its `message` broadcast or its `messageBlocked` notice, and an AI  *)
(* turn that waits for the provider eventually ends, also when the         *)
(* upstream stays silent.                                                  *)
(***************************************************************************)
Awaiting(i, pc) == i \in DOMAIN handlers /\ handlers[i].pc = pc

C21_AITurnEnds ==
  \A i \in Requests : Awaiting(i, "generating") ~> ~Awaiting(i, "generating")

C21_NoHandlerHangs ==
  /\ \A i \in Requests :
       Awaiting(i, "moderating") ~>
         \E k \in 1..Len(events) : events[k].req = i /\ IsPrimaryNotice(events[k])
  /\ C21_AITurnEnds
(***************************************************************************)
(* C22: every call of gracefulShutdown performs its steps in the order     *)
(* stop accepting, disconnect all, purge, close the upstream client,       *)
(* close the listening socket; once a purge has run the per-connection     *)
(* maps hold no entry.                                                     *)
(***************************************************************************)
ShutdownOrder ==
  <<"stopAccepting", "disconnect", "purge", "closeClient", "closeListening">>

Place(step) == CHOOSE k \in 1..Len(ShutdownOrder) : ShutdownOrder[k] = step

C22_ShutdownOrder ==
  /\ \A n \in 1..Len(audit) : \A j, k \in 1..Len(audit[n]) :
       j < k => Place(audit[n][j]) < Place(audit[n][k])
  /\ audit # <<>> =>
       /\ rateLimitMap = EmptyMap
       /\ aiResponseRateLimitMap = EmptyMap
       /\ conversationHistoryMap = EmptyMap

(***************************************************************************)
(* C23: once a termination trigger has arrived the process exits.          *)
(***************************************************************************)
C23_ShutdownExits == (process.shutdowns # <<>>) ~> Exited

\* the process was forced out while two calls still waited for the client
\* to close
C23_Witness ==
  /\ process.exit = "1"
  /\ Len(process.shutdowns) = 2
  /\ \A n \in 1..2 : process.shutdowns[n].pc = "closingClient"

\* ---------------------------------------------------------------------------
\* The cached Gradio client (moderationService.js lines 5-34).
\* process.connects lists the Client.connect calls made so far, each
\* "pending", "resolved" or "rejected"; the n-th one yields the promise
\* PromiseOf(n) and, when it resolves, the client ClientOf(n).
\* ---------------------------------------------------------------------------

\* the most Client.connect calls and the most calls of getGradioClient
MaxConnects == 3
MaxCalls == 6

ClientOf(n) == "client" \o ToString(n)
PromiseOf(n) == "connect" \o ToString(n)

PendingSetup_ignored == FALSE

\* if (clientConnectionPromise)
PendingSetup == process.clientConnectionPromise # "null"

\* getGradioClient up to its return: the caller gets the cached client, or the
\* pending promise, or the promise of a Client.connect it starts
getGradioClient ==
  IF process.gradioClient # "null"
  THEN [process |-> process, client |-> process.gradioClient, promise |-> "null"]
  ELSE IF PendingSetup
  THEN [process |-> process, client |-> "null",
        promise |-> process.clientConnectionPromise]
  ELSE LET n == Len(process.connects) + 1
       IN [process |-> [process EXCEPT !.connects = Append(@, "pending"),
                                       !.clientConnectionPromise = PromiseOf(n)],
           client |-> "null", promise |-> PromiseOf(n)]

\* the calls of getGradioClient so far (calls: what each got; setups: what the
\* module held when each Client.connect was started)
InitClient ==
  /\ process = Started
  /\ moderation = DefaultModeration
  /\ messagesPerMinute = MaxReqs
  /\ now = 0
  /\ sockets = [c \in Conns |-> "closed"]
  /\ socketUsername = [c \in Conns |-> JUndefined]
  /\ rateLimitMap = EmptyMap
  /\ aiResponseRateLimitMap = EmptyMap
  /\ conversationHistoryMap = EmptyMap
  /\ handlers = EmptyMap
  /\ received = [register |-> 0, message |-> 0]
  /\ events = <<>>
  /\ audit = [calls |-> <<>>, setups |-> <<>>]

\* const client = await getGradioClient() in moderateText (line 107): call
\* number i either goes on with the cached client or waits for the promise
UseClient ==
  LET i == Len(audit.calls) + 1
      call == getGradioClient
  IN /\ i <= MaxCalls
     /\ Len(call.process.connects) <= MaxConnects
     /\ process' = call.process
     /\ handlers' = IF call.promise = "null" THEN handlers
                    ELSE MapSet(handlers, i, [kind |-> "moderateText", pc |-> "connecting",
                                              promise |-> call.promise])
     /\ audit' = [calls |-> Append(audit.calls,
                                   [promise |-> call.promise, got |-> call.client,
                                    with |-> DOMAIN handlers]),
                  setups |-> IF Len(call.process.connects) > Len(process.connects)
                             THEN Append(audit.setups,
                                         [gradioClient |-> process.gradioClient,
                                          clientConnectionPromise |->
                                            process.clientConnectionPromise])
                             ELSE audit.setups]
     /\ UNCHANGED <<moderation, messagesPerMinute, now, sockets, socketUsername,
                    rateLimitMap, aiResponseRateLimitMap, conversationHistoryMap,
                    received, events>>

\* the handlers waiting for promise p
Waiting(p) == {i \in DOMAIN handlers : handlers[i].promise = p}

\* Client.connect number n settles; the callbacks of lines 23-31 run and
\* then, in the same turn of the event loop, every handler awaiting its
\* promise goes on with the outcome
Settle(n, client) ==
  /\ n \in DOMAIN process.connects
  /\ process.connects[n] = "pending"
  /\ handlers' = [i \in DOMAIN handlers \ Waiting(PromiseOf(n)) |-> handlers[i]]
  /\ audit' = [audit EXCEPT !.calls =
                 [i \in DOMAIN @ |-> IF i \in Waiting(PromiseOf(n))
                                     THEN [@[i] EXCEPT !.got = client]
                                     ELSE @[i]]]
  /\ UNCHANGED <<moderation, messagesPerMinute, now, sockets, socketUsername,
                 rateLimitMap, aiResponseRateLimitMap, conversationHistoryMap,
                 received, events>>

\* .then(client => { gradioClient = client; clientConnectionPromise = null; ... })
ConnectResolved(n) ==
  /\ Settle(n, ClientOf(n))
  /\ process' = [process EXCEPT !.connects[n] = "resolved",
                                !.gradioClient = ClientOf(n),
                                !.clientConnectionPromise = "null"]

\* .catch(error => { clientConnectionPromise = null; throw error; })
ConnectRejected(n) ==
  /\ Settle(n, "error")
  /\ process' = [process EXCEPT !.connects[n] = "rejected",
                                !.clientConnectionPromise = "null"]

NextClient ==
  \/ UseClient
  \/ \E n \in 1..MaxConnects : ConnectResolved(n)
  \/ \E n \in 1..MaxConnects : ConnectRejected(n)

SpecClient == InitClient /\ [][NextClient]_vars

\* the Client.connect calls still pending
InFlight == {n \in DOMAIN process.connects : process.connects[n] = "pending"}

\* C24: the setup of the upstream client is deduplicated. At most one
\* Client.connect is in flight at any time; handlers waiting at the same time
\* wait for the same promise, and calls that were given the same promise end
\* with the same client; every Client.connect was started while no client was
\* cached and none was pending; and once a Client.connect has failed and no
\* later one was started, no client is cached and no promise is pending.
C24_SetupIsDeduplicated ==
  /\ Cardinality(InFlight) <= 1
  /\ \A i, j \in DOMAIN handlers : handlers[i].promise = handlers[j].promise
  /\ \A i \in DOMAIN handlers : handlers[i].promise = process.clientConnectionPromise
  /\ \A i, j \in DOMAIN audit.calls :
       audit.calls[i].promise # "null" /\ audit.calls[i].promise = audit.calls[j].promise
         => audit.calls[i].got = audit.calls[j].got
  /\ \A n \in DOMAIN audit.setups :
       audit.setups[n].gradioClient = "null"
         /\ audit.setups[n].clientConnectionPromise = "null"
  /\ \A i \in DOMAIN audit.calls :
       audit.calls[i].promise = "null" =>
         /\ audit.calls[i].got # "null"
         /\ audit.calls[i].got = process.gradioClient
  /\ LET n == Len(process.connects)
     IN n > 0 /\ process.connects[n] = "rejected"
          => process.gradioClient = "null" /\ process.clientConnectionPromise = "null"

\* a first Client.connect failed with two handlers waiting for it, a later
\* call started a second one, and two handlers that waited for that one at
\* the same time went on with the same client
C24_Witness ==
  /\ Len(process.connects) = 2
  /\ process.connects[1] = "rejected" /\ process.connects[2] = "resolved"
  /\ \E i, j \in DOMAIN audit.calls :
       /\ i # j
       /\ audit.calls[i].promise = PromiseOf(2) /\ audit.calls[j].promise = PromiseOf(2)
       /\ i \in audit.calls[j].with
       /\ audit.calls[i].got = ClientOf(2) /\ audit.calls[j].got = ClientOf(2)
  /\ \E i, j \in DOMAIN audit.calls :
       /\ i # j
       /\ audit.calls[i].promise = PromiseOf(1) /\ audit.calls[j].promise = PromiseOf(1)
       /\ audit.calls[i].got = "error"

(***************************************************************************)
(* The chat of two connections.  s1 has registered as Ann, s2 has not; any *)
(* of the two registers, sends messages and disconnects; the greeting and  *)
(* the AI turn of an event run to their end before the next event, but a   *)
(* connection may close at any point of them.                              *)
(***************************************************************************)
\* a handler waiting for the classifier gets its answer: the greeting of
\* lines 371-372, the message of line 441 or the AI response of line 293
ClassifierReturn(i, upstream) ==
  /\ i \in DOMAIN handlers
  /\ LET result == moderateText(IF handlers[i].pc = "moderating"
                                THEN handlers[i].text ELSE handlers[i].aiText,
                                upstream)
     IN \/ GreetingModerated(i, result) /\ UNCHANGED audit
        \/ MessageModerated(i, upstream, result)
        \/ AIModerated(i, result)

\* payloads of `register_username` that line 353 or line 359 turns down: no
\* username, a number, blanks only, 21 characters between blanks
BadUsernames ==
  { JUndefined, JNum(7), JStr("  "), JStr(" abcdefghijklmnopqrstu ") }

\* the next event arrives: the handlers of the earlier ones have returned
MoreEvents == NextReq <= MaxRegs + 2 /\ handlers = EmptyMap

NextChat ==
  \/ \E c \in Conns : \E username \in RegisterInputs \cup BadUsernames :
       MoreEvents /\ RegisterUsername(c, username)
  \/ \E i \in Requests : \E provider \in Providers : GreetingReturn(i, provider)
  \/ \E c \in Conns : \E data \in MessageInputs : MoreEvents /\ OnMessage(c, data)
  \/ \E i \in Requests : \E upstream \in Verdicts2 : ClassifierReturn(i, upstream)
  \/ \E i \in Requests : AITurn(i)
  \/ \E i \in Requests : \E provider \in Providers : AIGenerateReturn(i, provider)
  \/ \E c \in Conns : Disconnect(c)

SpecChat == Init /\ [][NextChat]_vars

\* what the server keeps for connection c
Kept(c) ==
  [socketUsername |-> socketUsername[c],
   rateLimitMap |-> IF c \in DOMAIN rateLimitMap THEN <<rateLimitMap[c]>> ELSE <<>>,
   aiResponseRateLimitMap |-> IF c \in DOMAIN aiResponseRateLimitMap
                              THEN <<aiResponseRateLimitMap[c]>> ELSE <<>>,
   conversationHistoryMap |-> IF c \in DOMAIN conversationHistoryMap
                              THEN <<conversationHistoryMap[c]>> ELSE <<>>]

KeptNext(c) ==
  [socketUsername |-> socketUsername'[c],
   rateLimitMap |-> IF c \in DOMAIN rateLimitMap' THEN <<rateLimitMap'[c]>> ELSE <<>>,
   aiResponseRateLimitMap |-> IF c \in DOMAIN aiResponseRateLimitMap'
                              THEN <<aiResponseRateLimitMap'[c]>> ELSE <<>>,
   conversationHistoryMap |-> IF c \in DOMAIN conversationHistoryMap'
                              THEN <<conversationHistoryMap'[c]>> ELSE <<>>]

\* the step handles an event of connection a: an event of a arrives (it is
\* answered with an error or a notice, or leaves a handler behind, or closes
\* the connection), or a handler started for a goes on or returns
Handles(a) ==
  \/ sockets'[a] # sockets[a]
  \/ /\ Len(events') > Len(events)
     /\ events'[Len(events')].req = NextReq
     /\ events'[Len(events')].to = a
  \/ \E i \in DOMAIN handlers' \ DOMAIN handlers : handlers'[i].conn = a
  \/ \E i \in DOMAIN handlers :
       /\ handlers[i].conn = a
       /\ i \in DOMAIN handlers' => handlers'[i] # handlers[i]

\* C25: every step handles an event of exactly one connection, and it leaves
\* the registered name, the user rate window, the AI rate window and the
\* conversation history of every other connection as they were.
C25_OthersStateUntouched ==
  [][\E a \in Conns :
       /\ Handles(a)
       /\ \A b \in Conns \ {a} : ~Handles(b) /\ KeptNext(b) = Kept(b)]_vars

\* s2 has a history (its greeting) and s1, who has none left, had a message
\* and the AI reaction to it broadcast: neither is in the history of s2
C25_Witness ==
  /\ "s2" \in DOMAIN conversationHistoryMap
  /\ Len(conversationHistoryMap["s2"]) = 1
  /\ \E m, r \in DOMAIN events :
       /\ events[m].ev = "message" /\ events[m].to = "all" /\ ~events[m].isAI
       /\ events[r].ev = "message" /\ events[r].to = "all" /\ events[r].isAI
       /\ events[r].req = events[m].req
       /\ \A k \in DOMAIN conversationHistoryMap["s2"] :
            conversationHistoryMap["s2"][k].text \notin {events[m].text, events[r].text}

\* a name that is missing, not a string, empty after trimming or longer than
\* 20 characters after trimming
InvalidName(username) ==
  \/ username.ty # "string"
  \/ Len(Trim(username.s)) = 0
  \/ Len(Trim(username.s)) > 20

\* C26: a register_username event with such a name is answered with one
\* `error` event to its sender and changes nothing else: the name of the
\* connection (none, or the one registered before), the names of the others,
\* the windows and the histories stay, and no handler is left behind to
\* generate a greeting.
C26_InvalidRegistrationRejected ==
  [][\A c \in Conns : \A username \in RegisterInputs \cup BadUsernames :
       InvalidName(username) /\ RegisterUsername(c, username) =>
         /\ Len(events') = Len(events) + 1
         /\ events'[Len(events')].ev = "error" /\ events'[Len(events')].to = c
         /\ SubSeq(events', 1, Len(events)) = events
         /\ socketUsername' = socketUsername
         /\ UsernameMissing(c) => MessageGate(c, [text |-> JStr("hi"), author |-> JUndefined])' = "noUsername"
         /\ handlers' = handlers
         /\ rateLimitMap' = rateLimitMap
         /\ aiResponseRateLimitMap' = aiResponseRateLimitMap
         /\ conversationHistoryMap' = conversationHistoryMap]_vars

\* Ann tried to change her name to an invalid one and is still Ann; s2 tried
\* to register with an invalid name and is still without one
C26_Witness ==
  /\ socketUsername["s1"] = JStr("Ann")
  /\ ~Truthy(socketUsername["s2"])
  /\ sockets = [c \in Conns |-> "open"]
  /\ \A c \in Conns :
       \E k \in DOMAIN events :
         /\ events[k].ev = "error" /\ events[k].to = c
         /\ events[k].text \in {"Username is required",
                                "Username must be between 1 and 20 characters"}
  /\ \E k \in DOMAIN events :
       events[k].text = "Username must be between 1 and 20 characters"

(***************************************************************************)
(* The message handler of Ann under texts at the limits of its validation. *)
(***************************************************************************)
\* n copies of ch
RECURSIVE Repeat(_, _)
Repeat(ch, n) ==
  IF n = 0 THEN ""
  ELSE IF n % 2 = 1 THEN ch \o Repeat(ch, n - 1)
  ELSE LET half == Repeat(ch, n \div 2) IN half \o half

\* data.text: not a string; nothing left after trim and sanitization; one
\* character; MaxMessageLength characters between blanks; one more than that
TextInputs ==
  { JUndefined, JNum(7), JStr("   "), JStr(" <b></b> "), JStr("a"),
    JStr(" " \o Repeat("a", MaxMessageLength) \o " "),
    JStr(Repeat("a", MaxMessageLength + 1)) }

NextText ==
  \/ \E text \in TextInputs :
       /\ received.message < MaxReqs
       /\ OnMessage("s1", [text |-> text, author |-> JUndefined])
  \/ \E i \in Requests : \E upstream \in Verdicts2 : ModerationReturn(i, upstream)
  \/ \E i \in Requests : AITurn(i)

SpecText == Init /\ [][NextText]_vars

\* a text that is not a string, is empty after trimming and sanitization, or
\* has more than 1000 characters after sanitization
InvalidText(text) ==
  \/ text.ty # "string"
  \/ Len(Sanitize(text.s)) = 0
  \/ Len(Sanitize(text.s)) > 1000

InvalidTexts == {text \in TextInputs : InvalidText(text)}

\* C27: a message of a named connection with such a text is answered with
\* one `error` event to the sender and changes nothing else: no slot of the
\* rate window is taken, no handler is left behind to call the classifier,
\* nothing is appended to a history; and every text that is broadcast has
\* between 1 and 1000 characters.
C27_InvalidTextRejected ==
  [][/\ \A text \in InvalidTexts :
          /\ received'.message = received.message + 1
          /\ OnMessage("s1", [text |-> text, author |-> JUndefined])
          => /\ Len(events') = Len(events) + 1
             /\ events'[Len(events')].ev = "error" /\ events'[Len(events')].to = "s1"
             /\ SubSeq(events', 1, Len(events)) = events
             /\ handlers' = handlers
             /\ rateLimitMap' = rateLimitMap
             /\ aiResponseRateLimitMap' = aiResponseRateLimitMap
             /\ conversationHistoryMap' = conversationHistoryMap
             /\ socketUsername' = socketUsername
     /\ \A k \in DOMAIN events' :
          events'[k].ev = "message" =>
            Len(events'[k].text) >= 1 /\ Len(events'[k].text) <= 1000]_vars

\* a text of 1000 characters was broadcast, and a longer one and an empty one
\* were turned down with the window of Ann holding the one slot of the first
C27_Witness ==
  /\ \E k \in DOMAIN events :
       events[k].ev = "message" /\ Len(events[k].text) = 1000
  /\ \E k \in DOMAIN events :
       events[k].ev = "error" /\ events[k].to = "s1"
         /\ events[k].text = "Message too long (max 1000 characters)"
  /\ Len(rateLimitMap["s1"]) = 1

(***************************************************************************)
(* The prompt of an AI turn (aiService.js, buildMessages, lines 77-152).   *)
(* The two system prompts are fixed texts and are kept by their first      *)
(* words.                                                                  *)
(***************************************************************************)
systemPrompt(blocked) ==
  IF blocked
  THEN "You're a fun, chatty, and human-like AI friend chatting with users. A user's message was just blocked"
  ELSE "You're a fun, chatty, and human-like AI friend chatting with users. Your personality is"

\* lines 133-144; every outcome of moderateText for a message carries details
userMessageWithContext(userMessage, moderationResult, blocked) ==
  IF blocked
  THEN "The user tried to send: \"" \o userMessage \o "\" but it got blocked (detected "
       \o (IF moderationResult.maxCategory # "" THEN moderationResult.maxCategory
           ELSE "some issues")
       \o "). React naturally and chat about it - be friendly and understanding, like a friend would."
  ELSE userMessage

\* lines 116-128; a stored entry has no isAI field
Turn(msg) ==
  [role |-> IF msg.author = JStr(AI_AUTHOR_NAME) THEN "assistant" ELSE "user",
   content |-> msg.text]

buildMessages(userMessage, moderationResult, conversationHistory, blocked) ==
  LET n == Len(conversationHistory)
      recentHistory == SubSeq(conversationHistory,
                              n - Min(n, conversationHistorySize) + 1, n)
  IN <<[role |-> "system", content |-> systemPrompt(blocked)]>>
     \o [k \in 1..Len(recentHistory) |-> Turn(recentHistory[k])]
     \o <<[role |-> "user",
           content |-> userMessageWithContext(userMessage, moderationResult, blocked)]>>

\* names to register under
PromptNames == {JStr("Ann"), JStr(AI_AUTHOR_NAME)}

\* s1 registers under one of the names and chats, each event once the
\* handlers of the earlier ones have returned
NextPrompt ==
  \/ \E username \in PromptNames :
       MoreEvents /\ received.register = 0 /\ RegisterUsername("s1", username)
  \/ \E i \in Requests : \E provider \in Providers : GreetingReturn(i, provider)
  \/ \E data \in {d \in MessageInputs : d.text.ty = "string"} :
       MoreEvents /\ OnMessage("s1", data)
  \/ \E i \in Requests : \E upstream \in Verdicts2 : ClassifierReturn(i, upstream)
  \/ \E i \in Requests : AITurn(i)
  \/ \E i \in Requests : \E provider \in Providers : AIGenerateReturn(i, provider)

SpecPrompt == InitGreet /\ [][NextPrompt]_vars

\* the step in which handler i builds its prompt: lines 282-285, reached
\* without an await from the start of the deferred turn
BuildsPrompt(i) ==
  /\ i \in DOMAIN handlers /\ handlers[i].pc = "scheduled"
  /\ i \in DOMAIN handlers' /\ handlers'[i].pc = "generating"

PromptOf(i) ==
  buildMessages(handlers[i].text, handlers[i].mod, History(handlers[i].conn),
                handlers[i].mod.isBlocked)

\* what was appended to the history of c, oldest first: every append comes
\* with a `message` event that carries an id of c and tells whether the AI
\* wrote it
Appended(c) == SelectSeq(events, LAMBDA e : e.ev = "message" /\ e.id.socket = c)

\* C28: the prompt starts with the system instruction and ends with the
\* current user turn; in between stand the last entries of the history, at
\* most conversationHistorySize, in their order, each with the assistant
\* role if and only if the AI wrote it (a greeting or an AI reaction).
C28_PromptLayout ==
  [][\A i \in Requests :
       BuildsPrompt(i) =>
         LET prompt == PromptOf(i)
             history == History(handlers[i].conn)
             appended == Appended(handlers[i].conn)
             shown == Len(prompt) - 2
         IN /\ prompt[1].role = "system"
            /\ prompt[Len(prompt)].role = "user"
            /\ ~handlers[i].mod.isBlocked => prompt[Len(prompt)].content = handlers[i].text
            /\ shown = Min(Len(history), conversationHistorySize)
            /\ \A k \in 1..shown :
                 /\ prompt[k + 1].content = history[Len(history) - shown + k].text
                 /\ prompt[k + 1].role \in {"assistant", "user"}
                 /\ prompt[k + 1].role = "assistant"
                      <=> appended[Len(appended) - shown + k].isAI]_vars

\* the same without the roles of the history entries
C28_PromptOrder ==
  [][\A i \in Requests :
       BuildsPrompt(i) =>
         LET prompt == PromptOf(i)
             history == History(handlers[i].conn)
             shown == Len(prompt) - 2
         IN /\ prompt[1].role = "system"
            /\ prompt[Len(prompt)].role = "user"
            /\ shown = Min(Len(history), conversationHistorySize)
            /\ \A k \in 1..shown :
                 prompt[k + 1].content = history[Len(history) - shown + k].text]_vars

(***************************************************************************)
(* The AI turn of Ann under provider texts around the length limit.        *)
(***************************************************************************)
\* choices[0].message.content: short; exactly maxResponseLength; one more;
\* one more because of blanks around it; a blank at the cut; far beyond
LongContents ==
  { "  hi  ",
    Repeat("a", maxResponseLength),
    Repeat("a", maxResponseLength + 1),
    " " \o Repeat("a", maxResponseLength - 1) \o " ",
    Repeat("a", maxResponseLength - 1) \o " b",
    Repeat("ab", maxResponseLength) }

LongProviders == {[net |-> "ok", content |-> content] : content \in LongContents}

NextRespond ==
  \/ \E data \in {d \in MessageInputs : d.text.ty = "string"} :
       received.message < MaxReqs /\ OnMessage("s1", data)
  \/ \E i \in Requests : \E upstream \in Verdicts2 : ModerationReturn(i, upstream)
  \/ \E i \in Requests : AITurn(i)
  \/ \E i \in Requests : \E provider \in LongProviders \cup Providers :
       AIGenerateReturn(i, provider)

SpecRespond == Init /\ [][NextRespond]_vars

\* s starts with p
StartsWith(s, p) == Len(p) <= Len(s) /\ SubSeq(s, 1, Len(p)) = p

\* s without the blanks in front
WithoutLeadingBlanks(s) ==
  LET first == {k \in 1..Len(s) : ~IsSpace(SubSeq(s, k, k))}
  IN IF first = {} THEN ""
     ELSE SubSeq(s, CHOOSE k \in first : \A j \in first : k <= j, Len(s))

MaxRuns == 2

InitStrictness ==
  /\ process = Started
  /\ moderation \in [threshold : Thresholds, saferValue : {JNull}]
  /\ messagesPerMinute = 1
  /\ now = 0
  /\ sockets = [c \in Conns |-> "idle"]
  /\ socketUsername = [c \in Conns |-> JNull]
  /\ rateLimitMap = EmptyMap
  /\ aiResponseRateLimitMap = EmptyMap
  /\ conversationHistoryMap = EmptyMap
  /\ handlers = EmptyMap
  /\ received = [register |-> 0, message |-> 0]
  /\ events = <<>>
  /\ audit \in {[answer |-> v, runs |-> <<>>] : v \in Verdicts}

\* lines 88-120 on the answer under the present configuration
ClassifyUnder ==
  /\ Len(audit.runs) < MaxRuns
  /\ IF audit.runs = <<>> THEN TRUE
     ELSE audit.runs[Len(audit.runs)].threshold # threshold
  /\ audit' = [audit EXCEPT !.runs =
                 Append(@, [threshold |-> threshold, safer |-> saferValue,
                            isBlocked |-> parseModerationResponse(audit.answer).isBlocked])]
  /\ UNCHANGED <<process, moderation, messagesPerMinute, now, sockets, socketUsername,
                 rateLimitMap, aiResponseRateLimitMap, conversationHistoryMap, handlers,
                 received, events>>

\* the server is started again with a higher MODERATION_THRESHOLD
Restart(t) ==
  /\ audit.runs # <<>> /\ Len(audit.runs) < MaxRuns
  /\ IF audit.runs = <<>> THEN FALSE
     ELSE audit.runs[Len(audit.runs)].threshold = threshold
  /\ t > threshold
  /\ moderation' = [moderation EXCEPT !.threshold = t]
  /\ UNCHANGED <<process, messagesPerMinute, now, sockets, socketUsername, rateLimitMap,
                 aiResponseRateLimitMap, conversationHistoryMap, handlers, received,
                 events, audit>>

NextStrictness ==
  \/ ClassifyUnder
  \/ \E t \in Thresholds : Restart(t)

SpecStrictness == InitStrictness /\ [][NextStrictness]_vars

\* C30: a higher threshold is stricter.  Of two runs on the same answer the
\* one under the higher threshold blocks whenever the other does, and it
\* sends a safety parameter that is no larger (a smaller one makes the
\* classifier raise is_safer_flagged sooner).
C30_HigherThresholdStricter ==
  \A i, j \in DOMAIN audit.runs :
    audit.runs[i].threshold < audit.runs[j].threshold =>
      /\ audit.runs[i].isBlocked => audit.runs[j].isBlocked
      /\ audit.runs[j].safer <= audit.runs[i].safer

\* the same for the safety parameter alone, thresholds above 0
C30_SaferParameterFalls ==
  \A i, j \in DOMAIN audit.runs :
    0 < audit.runs[i].threshold /\ audit.runs[i].threshold < audit.runs[j].threshold =>
      audit.runs[j].safer <= audit.runs[i].safer

(***************************************************************************)
(* The parser on an answer that carries one score under one key, in the    *)
(* flat shape {key: score} or as the pair [[key, score]].  audit keeps the *)
(* key, the score, the shape and the outcome.                              *)
(***************************************************************************)
\* the thirteen categories under the underscore, slash and space conventions
UnderscoreKeys ==
  { "violence", "violence_graphic", "sexual", "sexual_minors", "self_harm",
    "self_harm_intent", "self_harm_instructions", "hate", "hate_threatening",
    "harassment", "harassment_threatening", "illicit", "illicit_violent" }
SlashKeys ==
  { "violence", "violence/graphic", "sexual", "sexual/minors", "self-harm",
    "self-harm/intent", "self-harm/instructions", "hate", "hate/threatening",
    "harassment", "harassment/threatening", "illicit", "illicit/violent" }
SpaceKeys ==
  { "violence", "violence graphic", "sexual", "sexual minors", "self harm",
    "self harm intent", "self harm instructions", "hate", "hate threatening",
    "harassment", "harassment threatening", "illicit", "illicit violent" }
\* keys in another letter case
CasedKeys == { "Hate", "HATE", "Violence", "Self-Harm" }

CatalogKeys == UnderscoreKeys \cup SlashKeys \cup SpaceKeys \cup CasedKeys

\* the answer with the one score
OneScore(shape, key, score) ==
  IF shape = "pairs" THEN JsonPairs([k \in {key} |-> JNum(score)])
  ELSE JsonObject([k \in {key} |-> JNum(score)])

InitCatalog ==
  /\ process = Started
  /\ moderation = DefaultModeration
  /\ messagesPerMinute = 1
  /\ now = 0
  /\ sockets = [c \in Conns |-> "idle"]
  /\ socketUsername = [c \in Conns |-> JNull]
  /\ rateLimitMap = EmptyMap
  /\ aiResponseRateLimitMap = EmptyMap
  /\ conversationHistoryMap = EmptyMap
  /\ handlers = EmptyMap
  /\ received = [register |-> 0, message |-> 0]
  /\ events = <<>>
  /\ audit \in {[key |-> k, score |-> n, shape |-> sh, done |-> FALSE,
                 outcome |-> NoOutcome] :
                  k \in CatalogKeys, n \in {250, 500, 900}, sh \in {"object", "pairs"}}

\* parseModerationResponse on the answer
ClassifyKey ==
  /\ ~audit.done
  /\ audit' = [audit EXCEPT !.done = TRUE,
                            !.outcome = parseModerationResponse(
                                          OneScore(audit.shape, audit.key, audit.score))]
  /\ UNCHANGED <<process, moderation, messagesPerMinute, now, sockets, socketUsername,
                 rateLimitMap, aiResponseRateLimitMap, conversationHistoryMap, handlers,
                 received, events>>

SpecCatalog == InitCatalog /\ [][ClassifyKey]_vars

\* C31: a score supplied under the key of a category, in any of the three
\* conventions, in any letter case and in either shape, is the maximum the
\* parser reports, and blocks the text when it is at or above the threshold.
C31_EveryKeyCounts ==
  audit.done =>
    /\ audit.outcome.maxScore = audit.score
    /\ audit.score >= threshold => audit.outcome.isBlocked

\* the same for the keys the parser lists, in lower case
C31_ListedKeysCount ==
  audit.done /\ (\E i \in DOMAIN toxicCategories : toxicCategories[i] = audit.key) =>
    /\ audit.outcome.maxScore = audit.score
    /\ audit.score >= threshold => audit.outcome.isBlocked

\* the same for a key in any letter case in the array-of-pairs shape
C31_PairsFoldCase ==
  audit.done /\ audit.shape = "pairs"
    /\ (\E i \in DOMAIN toxicCategories : toxicCategories[i] = ToLowerCase(audit.key)) =>
    /\ audit.outcome.maxScore = audit.score
    /\ audit.score >= threshold => audit.outcome.isBlocked

(***************************************************************************)
(* Two registered connections chat at the same time: s1 as Ann, s2 as Bob. *)
(* A `message` event arrives at any moment, whatever the handlers of the   *)
(* earlier events are waiting for.                                         *)
(***************************************************************************)
InitPair ==
  /\ process = Started
  /\ moderation = DefaultModeration
  /\ messagesPerMinute \in RateLimits
  /\ now = 0
  /\ sockets = [c \in Conns |-> "open"]
  /\ socketUsername = [c \in Conns |-> IF c = "s1" THEN JStr("Ann") ELSE JStr("Bob")]
  /\ rateLimitMap = EmptyMap
  /\ aiResponseRateLimitMap = EmptyMap
  /\ conversationHistoryMap = EmptyMap
  /\ handlers = EmptyMap
  /\ received = [register |-> 0, message |-> 0]
  /\ events = <<>>
  /\ audit = NoAudit

NextPair ==
  \/ \E c \in Conns : \E data \in MessageInputs :
       NextReq <= MaxReqs /\ OnMessage(c, data)
  \/ \E i \in Requests : \E upstream \in Verdicts2 : ModerationReturn(i, upstream)
  \/ \E i \in Requests : AITurn(i)
  \/ \E i \in Requests : \E provider \in Providers : AIGenerateReturn(i, provider)
  \/ \E i \in Requests : \E upstream \in Verdicts2 : AIModerationReturn(i, upstream)

SpecPair == InitPair /\ [][NextPair]_vars

\* handler i waits for the classifier or for the AI provider
Outstanding(i) ==
  i \in DOMAIN handlers /\ handlers[i].pc \in {"moderating", "generating", "aiModerating"}

\* a call made for another connection than c is outstanding
OthersOutstanding(c) ==
  \E i \in DOMAIN handlers : Outstanding(i) /\ handlers[i].conn # c

\* C32: while a call made for one connection is outstanding, a `message`
\* event of another connection is handled in the step it arrives in (its
\* validation and rate check run and its text is sent to the classifier),
\* and when the verdict on it arrives its fate is emitted in that step, the
\* broadcast to everybody if it is allowed; the waiting handlers stay as
\* they are.
C32_NoHeadOfLineBlocking ==
  [][/\ \A c \in Conns : \A data \in MessageInputs :
          OthersOutstanding(c) /\ OnMessage(c, data) =>
            /\ \A i \in DOMAIN handlers : handlers'[i] = handlers[i]
            /\ MessageGate(c, data) = "accepted" =>
                 /\ NextReq \in DOMAIN handlers'
                 /\ handlers'[NextReq].pc = "moderating"
                 /\ rateLimitMap' = checkRateLimit(rateLimitMap, c, now).map
     /\ \A j \in DOMAIN handlers : \A upstream \in Verdicts2 :
          OthersOutstanding(handlers[j].conn) /\ ModerationReturn(j, upstream) =>
            /\ \A i \in DOMAIN handlers \ {j} : handlers'[i] = handlers[i]
            /\ Len(events') = Len(events) + 1
            /\ events'[Len(events')].req = j
            /\ upstream = UpstreamClean =>
                 events'[Len(events')] = Broadcast(j)]_vars

\* Ann's message waits for the AI provider, and the message Bob sent after
\* it has been classified and broadcast
C32_Witness ==
  \E i, j \in DOMAIN handlers :
    /\ i < j
    /\ handlers[i].conn = "s1" /\ handlers[i].pc = "generating"
    /\ handlers[j].conn = "s2"
    /\ \E n \in DOMAIN events :
         /\ events[n].ev = "message" /\ events[n].to = "all" /\ events[n].req = j
         /\ events[n].author = JStr("Bob")

\* the same while Ann's message waits for the classifier
C32_WitnessModeration ==
  \E i, j \in DOMAIN handlers :
    /\ i < j
    /\ handlers[i].conn = "s1" /\ handlers[i].pc = "moderating"
    /\ handlers[j].conn = "s2"
    /\ \E n \in DOMAIN events :
         /\ events[n].ev = "message" /\ events[n].to = "all" /\ events[n].req = j
         /\ events[n].author = JStr("Bob")

\* the step starts an AI provider call for request i: generateGreeting of
\* line 370 or generateAIResponse of line 285
StartsProviderCall(i) ==
  /\ i \in DOMAIN handlers'
  /\ handlers'[i].pc \in {"greeting", "generating"}
  /\ i \in DOMAIN handlers => handlers[i].pc # handlers'[i].pc

\* C33: every AI provider call, for a reaction and for a greeting alike, is
\* started in a step in which the AI rate window of its connection accepts
\* the call and records it.
C33_ProviderCallsGated ==
  [][\A i \in Requests :
       StartsProviderCall(i) =>
         LET gate == checkAIRateLimit(aiResponseRateLimitMap, handlers'[i].conn, now)
         IN gate.allowed /\ aiResponseRateLimitMap' = gate.map]_vars

\* the same for the provider calls of the reactions alone
C33_ReactionsGated ==
  [][\A i \in Requests :
       StartsProviderCall(i) /\ handlers'[i].pc = "generating" =>
         LET gate == checkAIRateLimit(aiResponseRateLimitMap, handlers'[i].conn, now)
         IN gate.allowed /\ aiResponseRateLimitMap' = gate.map]_vars

(***************************************************************************)
(* The try/catch of the message handler, lines 404-497.  Something in the  *)
(* try block throws: during validation and the rate check (406-438), or in *)
(* the continuation of `await moderateText` (443-490), there either before *)
(* the message joins the history or at the broadcast that follows it.      *)
(***************************************************************************)
\* a variant: the exception is swallowed
MessageCatch_silent(c, req) == events

\* lines 491-497: the catch block
MessageCatch(c, req) ==
  Append(events, ErrorEvent(c, req, "An error occurred while processing your message"))

\* places of the continuation at which the exception is thrown
ThrowSites == {"verdict", "broadcast"}

\* the synchronous part of the try block throws
OnMessageThrew(c, data) ==
  /\ sockets[c] = "open"
  /\ ~UsernameMissing(c)
  /\ received' = [received EXCEPT !.message = @ + 1]
  /\ events' = MessageCatch(c, NextReq)
  /\ UNCHANGED <<process, moderation, messagesPerMinute, audit, now, sockets,
                 socketUsername, rateLimitMap, aiResponseRateLimitMap,
                 conversationHistoryMap, handlers>>

\* the continuation of the await of line 441 throws
MessageThrew(i, site) ==
  /\ i \in DOMAIN handlers
  /\ handlers[i].kind = "message" /\ handlers[i].pc = "moderating"
  /\ handlers' = Return(i)
  /\ events' = MessageCatch(handlers[i].conn, i)
  /\ conversationHistoryMap' =
       IF site = "broadcast"
       THEN addToConversationHistory(conversationHistoryMap, handlers[i].conn,
                                     MessageData(i))
       ELSE conversationHistoryMap
  /\ UNCHANGED <<process, moderation, messagesPerMinute, audit, now, sockets,
                 socketUsername, rateLimitMap, aiResponseRateLimitMap, received>>

NextFault ==
  \/ \E c \in Conns : \E data \in MessageInputs :
       NextReq <= MaxReqs /\ OnMessage(c, data)
  \/ \E c \in Conns : \E data \in MessageInputs :
       NextReq <= MaxReqs /\ OnMessageThrew(c, data)
  \/ \E i \in Requests : \E site \in ThrowSites : MessageThrew(i, site)
  \/ \E i \in Requests : \E upstream \in Verdicts2 : ClassifierReturn(i, upstream)
  \/ \E i \in Requests : AITurn(i)
  \/ \E i \in Requests : \E provider \in Providers : AIGenerateReturn(i, provider)

SpecFault == InitPair /\ [][NextFault]_vars

\* the step reports the exception of request req to connection c and to
\* nobody else, and touches nothing of the process, of the sockets or of
\* the other connections and handlers
Contained(c, req) ==
  /\ Len(events') = Len(events) + 1
  /\ LET e == events'[Len(events')]
     IN /\ e.ev = "error" /\ e.to = c /\ e.req = req
        /\ e.text = "An error occurred while processing your message"
  /\ process' = process
  /\ sockets' = sockets
  /\ socketUsername' = socketUsername
  /\ \A b \in Conns \ {c} : KeptNext(b) = Kept(b)
  /\ \A j \in DOMAIN handlers \ {req} : j \in DOMAIN handlers' /\ handlers'[j] = handlers[j]

\* C34: an exception thrown in the try block of the handler of a message
\* event is answered with one `error` event with the generic text to the
\* connection of the event only; the process record (no shutdown is
\* started), the sockets, the names, and the windows, histories and pending
\* handlers of the other connections stay as they were.
C34_ExceptionContained ==
  [][/\ \A i \in Requests : \A site \in ThrowSites :
          MessageThrew(i, site) => Contained(handlers[i].conn, i)
     /\ \A c \in Conns : \A data \in MessageInputs :
          OnMessageThrew(c, data) => Contained(c, NextReq)]_vars

\* the handler of a message of Ann threw at the broadcast and was answered
\* with the error event; Bob's message, pending at that time, was broadcast
\* afterwards, with both sockets open and no shutdown begun
C34_Witness ==
  /\ process = Started
  /\ \A c \in Conns : sockets[c] = "open"
  /\ \E m, n \in DOMAIN events :
       /\ m < n
       /\ events[m].ev = "error" /\ events[m].to = "s1"
       /\ events[m].text = "An error occurred while processing your message"
       /\ events[n].ev = "message" /\ events[n].to = "all"
       /\ events[n].author = JStr("Bob") /\ events[n].req < events[m].req
  /\ Len(History("s1")) = 1

\* the turns of the prompt, after the system instruction, that carry text
TurnsWith(prompt, text) == {k \in 2..Len(prompt) : prompt[k].content = text}

\* the messages of connection c with that text broadcast for requests before i
EarlierWith(c, i, text) ==
  {n \in DOMAIN events : /\ events[n].ev = "message" /\ ~events[n].isAI
                         /\ events[n].id.socket = c /\ events[n].req < i
                         /\ events[n].text = text}

\* C35: the prompt of the AI turn that reacts to an allowed message ends with
\* that message as the user turn, and before it the text stands only where
\* an earlier message of the connection with the same text is replayed.
C35_CurrentMessageOnce ==
  [][\A i \in Requests :
       BuildsPrompt(i) /\ ~handlers[i].mod.isBlocked =>
         LET prompt == PromptOf(i)
             text == handlers[i].text
         IN /\ prompt[Len(prompt)] = [role |-> "user", content |-> text]
            /\ Cardinality(TurnsWith(prompt, text))
                 <= 1 + Cardinality(EarlierWith(handlers[i].conn, i, text))]_vars

\* the prompt of the AI turn that reacts to a blocked message: the text of
\* the message is not replayed from the history
C35_BlockedMessageOnce ==
  [][\A i \in Requests :
       BuildsPrompt(i) /\ handlers[i].mod.isBlocked =>
         LET prompt == PromptOf(i)
             text == handlers[i].text
         IN Cardinality(TurnsWith(prompt, text))
              <= Cardinality(EarlierWith(handlers[i].conn, i, text))]_vars

\* C36: every `message` event signed with the name of the AI was written by
\* the AI responder and says so (isAI); no message of a user goes out under
\* that name.
C36_NoImpersonation ==
  \A n \in DOMAIN events :
    events[n].ev = "message" /\ events[n].author = JStr(AI_AUTHOR_NAME) => events[n].isAI

\* what the responder itself sends is signed with the name and marked
C36_ResponderIsMarked ==
  \A n \in DOMAIN events :
    events[n].ev = "message" /\ events[n].id.prefix \in {"ai-", "ai-greeting-"} =>
      events[n].isAI /\ events[n].author = JStr(AI_AUTHOR_NAME)

(***************************************************************************)
(* getGradioClient together with closeGradioClient (part_002 lines 40-62). *)
(* audit.calls is the log of the module's calls in their order: an entry   *)
(* per call of getGradioClient as before, an entry with got = "closing"    *)
(* when closeGradioClient starts to wait for the client's close(), and an  *)
(* entry with got = "closed" when closeGradioClient completes.             *)
(***************************************************************************)
CloseEntry(got) == [promise |-> "null", got |-> got, with |-> DOMAIN handlers]

\* closeGradioClient is called.  With no client cached it completes at once
\* (line 41); with one cached it either waits for close() or disconnect()
\* (lines 45-48) or, closing the socket directly or finding nothing to call
\* (49-52), goes through `finally` without waiting.
closeGradioClient(awaits) ==
  LET i == Len(audit.calls) + 1
  IN /\ i <= MaxCalls
     /\ IF process.gradioClient = "null"
        THEN /\ audit' = [audit EXCEPT !.calls = Append(@, CloseEntry("closed"))]
             /\ UNCHANGED <<process, handlers>>
        ELSE IF awaits
        THEN /\ audit' = [audit EXCEPT !.calls = Append(@, CloseEntry("closing"))]
             /\ handlers' = MapSet(handlers, i, [kind |-> "closeGradioClient",
                                                 pc |-> "closing", promise |-> "null"])
             /\ UNCHANGED process
        ELSE /\ audit' = [audit EXCEPT !.calls = Append(@, CloseEntry("closed"))]
             /\ process' = [process EXCEPT !.gradioClient = "null",
                                           !.clientConnectionPromise = "null"]
             /\ UNCHANGED handlers
     /\ UNCHANGED <<moderation, messagesPerMinute, now, sockets, socketUsername,
                    rateLimitMap, aiResponseRateLimitMap, conversationHistoryMap,
                    received, events>>

\* close() or disconnect() has returned or thrown: lines 53-60
CloseReturned(i) ==
  /\ i \in DOMAIN handlers
  /\ handlers[i].kind = "closeGradioClient"
  /\ Len(audit.calls) < MaxCalls
  /\ handlers' = Return(i)
  /\ process' = [process EXCEPT !.gradioClient = "null",
                                !.clientConnectionPromise = "null"]
  /\ audit' = [audit EXCEPT !.calls = Append(@, CloseEntry("closed"))]
  /\ UNCHANGED <<moderation, messagesPerMinute, now, sockets, socketUsername,
                 rateLimitMap, aiResponseRateLimitMap, conversationHistoryMap,
                 received, events>>

NextClose ==
  \/ UseClient
  \/ \E n \in 1..MaxConnects : ConnectResolved(n)
  \/ \E n \in 1..MaxConnects : ConnectRejected(n)
  \/ \E awaits \in BOOLEAN : closeGradioClient(awaits)
  \/ \E i \in 1..MaxCalls : CloseReturned(i)

SpecClose == InitClient /\ [][NextClose]_vars

\* the places of the log at which closeGradioClient completed
Completions == {k \in DOMAIN audit.calls : audit.calls[k].got = "closed"}

\* the places of the log that are calls of getGradioClient
ClientRequests == {k \in DOMAIN audit.calls : audit.calls[k].got \notin {"closing", "closed"}}

\* C37: in the step in which closeGradioClient completes no client is cached
\* afterwards, and once it has completed a client becomes cached only if
\* getGradioClient was called after the last completion.
C37_NoHandleAfterClose ==
  [][/\ Len(audit'.calls) > Len(audit.calls)
          /\ audit'.calls[Len(audit'.calls)].got = "closed"
        => process'.gradioClient = "null"
     /\ process.gradioClient = "null" /\ process'.gradioClient # "null"
          /\ Completions # {}
        => \E r \in ClientRequests : \A k \in Completions : k < r]_vars

\* the first part alone: at the completion of closeGradioClient no client is
\* cached and no promise is kept
C37_ClearedAtCompletion ==
  [][Len(audit'.calls) > Len(audit.calls)
       /\ audit'.calls[Len(audit'.calls)].got = "closed"
     => process'.gradioClient = "null"]_vars

\* the timestamps stored in the user window of c
Slots(c) == IF c \in DOMAIN rateLimitMap THEN rateLimitMap[c] ELSE <<>>

SlotsNext(c) == IF c \in DOMAIN rateLimitMap' THEN rateLimitMap'[c] ELSE <<>>

\* C38: a message that passes validation and the limiter adds exactly one
\* timestamp, its own, to the user window of its connection in the step it
\* arrives in; a message turned down by validation or by the limiter adds
\* none; and no later step of its handling touches the window, whether the
\* classifier blocks it, allows it or fails: the windows change only when a
\* message arrives or a connection closes.
C38_OneSlotPerAcceptedMessage ==
  [][/\ \A c \in Conns : \A data \in MessageInputs :
          received'.message = received.message + 1 /\ OnMessage(c, data) =>
            /\ MessageGate(c, data) = "accepted" =>
                 SlotsNext(c) = Append(Recent(Slots(c), now - WindowMs), now)
            /\ MessageGate(c, data) # "accepted" => SlotsNext(c) = Slots(c)
            /\ \A b \in Conns \ {c} : SlotsNext(b) = Slots(b)
     /\ \A i \in Requests : Moderated(i) => rateLimitMap' = rateLimitMap
     /\ rateLimitMap' # rateLimitMap =>
          received'.message = received.message + 1 \/ sockets' # sockets]_vars

\* with a limit of one message per minute, Ann's first message was blocked
\* by moderation and her second one was turned down by the limiter, the
\* window holding the timestamp of the first
C38_Witness ==
  /\ messagesPerMinute = 1
  /\ Slots("s1") = <<0>>
  /\ \E m, n \in DOMAIN events :
       /\ m < n
       /\ events[m].ev = "messageBlocked" /\ events[m].to = "s1"
       /\ events[m].reason # "Rate limit exceeded. Please slow down."
       /\ events[n].ev = "messageBlocked" /\ events[n].to = "s1"
       /\ events[n].reason = "Rate limit exceeded. Please slow down."
       /\ events[m].req < events[n].req

(***************************************************************************)
(* The threshold recommendation of the feedback analysis, config.js lines  *)
(* 285-307.  Thresholds are counted in millionths, rates in percent.       *)
(***************************************************************************)
\* parseFloat(x.toFixed(4)): x rounded to four decimals
ToFixed4(x) == ((x + 50) \div 100) * 100

calculateThresholdRecommendation(falsePositiveRate, falseNegativeRate, currentThreshold) ==
  LET recommendation ==
        IF falsePositiveRate > 20
        THEN Min(100000, (currentThreshold * 11) \div 10)
        ELSE IF falseNegativeRate > 10
        THEN Max(5000, (currentThreshold * 9) \div 10)
        ELSE currentThreshold
  IN [current |-> currentThreshold,
      recommended |-> ToFixed4(recommendation),
      reason |-> IF falsePositiveRate > 20 THEN "too strict"
                 ELSE IF falseNegativeRate > 10 THEN "too loose"
                 ELSE "balanced"]

\* rates around the two limits
Rates == {0, 10, 11, 20, 21, 100}

\* logs[0]?.threshold || 0.5 (line 108), a threshold above 0 and up to 1:
\* 0.001, 0.004, 0.005, 0.0123, 0.05, 0.09, 0.1, 0.25, 0.5, 1
CurrentThresholds ==
  {1000, 4000, 5000, 12300, 50000, 90000, 100000, 250000, 500000, 1000000}

NoRecommendation == [current |-> 0, recommended |-> 0, reason |-> "none"]

InitAdvice ==
  /\ process = Started
  /\ moderation = DefaultModeration
  /\ messagesPerMinute = 1
  /\ now = 0
  /\ sockets = [c \in Conns |-> "idle"]
  /\ socketUsername = [c \in Conns |-> JNull]
  /\ rateLimitMap = EmptyMap
  /\ aiResponseRateLimitMap = EmptyMap
  /\ conversationHistoryMap = EmptyMap
  /\ handlers = EmptyMap
  /\ received = [register |-> 0, message |-> 0]
  /\ events = <<>>
  /\ audit \in {[falsePositiveRate |-> p, falseNegativeRate |-> n, currentThreshold |-> t,
                 threshold |-> NoRecommendation] :
                  p \in Rates, n \in Rates, t \in CurrentThresholds}

\* analyzeFeedbackLogs computes recommendations.threshold (lines 105-109)
Recommend ==
  /\ audit.threshold = NoRecommendation
  /\ audit' = [audit EXCEPT !.threshold =
                 calculateThresholdRecommendation(audit.falsePositiveRate,
                                                  audit.falseNegativeRate,
                                                  audit.currentThreshold)]
  /\ UNCHANGED <<process, moderation, messagesPerMinute, now, sockets, socketUsername,
                 rateLimitMap, aiResponseRateLimitMap, conversationHistoryMap, handlers,
                 received, events>>

SpecAdvice == InitAdvice /\ [][Recommend]_vars

\* C39: with a false-positive rate above 20% the recommended threshold is at
\* least the current one; otherwise, with a false-negative rate above 10%,
\* it is at most the current one; otherwise it is the current one.
C39_RecommendationDirection ==
  audit.threshold # NoRecommendation =>
    /\ audit.falsePositiveRate > 20 => audit.threshold.recommended >= audit.currentThreshold
    /\ audit.falsePositiveRate <= 20 /\ audit.falseNegativeRate > 10 =>
         audit.threshold.recommended <= audit.currentThreshold
    /\ audit.falsePositiveRate <= 20 /\ audit.falseNegativeRate <= 10 =>
         audit.threshold.recommended = audit.currentThreshold

\* the same for current thresholds between 0.005 and 0.1
C39_DirectionInSaferRange ==
  audit.threshold # NoRecommendation
    /\ audit.currentThreshold >= 5000 /\ audit.currentThreshold <= 100000 =>
    /\ audit.falsePositiveRate > 20 => audit.threshold.recommended >= audit.currentThreshold
    /\ audit.falsePositiveRate <= 20 /\ audit.falseNegativeRate > 10 =>
         audit.threshold.recommended <= audit.currentThreshold
    /\ audit.falsePositiveRate <= 20 /\ audit.falseNegativeRate <= 10 =>
         audit.threshold.recommended = audit.currentThreshold
====
